---- MODULE Spec2Model ----
(***************************************************************************)
(* Command-completion index of ptk_repl: CommandRegistry (core/registry.py)*)
(* and the two AutoCompleter revisions (core/completion/auto_completer.py, *)
(* "packaged", and auto_completer_enhanced.py, "enhanced").                *)
(*                                                                         *)
(* Representation.  A word (module name, command name, token) is a string. *)
(* A command path or dictionary key such as "database connect" is the      *)
(* sequence of its words, <<"database", "connect">>; the key "" is <<>>.   *)
(* A Python dict whose iteration order the code depends on is a sequence   *)
(* of entries in insertion order.  The completion dictionary is a function *)
(* from keys to lists (dict equality ignores key order).  A field name of  *)
(* a parameter model is the sequence of its characters.                    *)
(***************************************************************************)
EXTENDS Integers, Sequences, FiniteSets, TLC

(* ---------------------------------------------------------------------- *)
(* Bounds                                                                 *)
(* ---------------------------------------------------------------------- *)
MaxModules == 2
MaxCommands == 2
MaxRefreshRun == 2
MaxCache == 1
MaxCacheSize == 2
MaxInstances == 2
MaxLen == 2

(* ---------------------------------------------------------------------- *)
(* Inputs                                                                 *)
(* ---------------------------------------------------------------------- *)
Revisions == {"packaged", "enhanced"}

AliasNone == [kind |-> "none", items |-> <<>>]
AliasStr(s) == [kind |-> "str", items |-> <<s>>]
AliasList(l) == [kind |-> "list", items |-> l]

\* module instances: core (aliases None), database (aliases "db"),
\* ssh (aliases []), files (aliases ["fs"], the list form of CommandModule)
ModuleDefs ==
  { [name |-> "core", aliases |-> AliasNone],
    [name |-> "database", aliases |-> AliasStr("db")],
    [name |-> "ssh", aliases |-> AliasList(<<>>)],
    [name |-> "files", aliases |-> AliasList(<<"fs">>)] }

FieldHost == <<"h", "o", "s", "t">>
FieldMaxRows == <<"m", "a", "x", "_", "r", "o", "w", "s">>
FieldLevel == <<"l", "e", "v", "e", "l">>
FieldSql == <<"s", "q", "l">>

\* a plain function
PlainHandler == [kind |-> "plain", fields |-> <<>>]
\* the wrapper typed_command returns: wrapper._original_func = func,
\* wrapper._typed_model = model_cls
TypedWrapper(fields) == [kind |-> "typed_wrapper", fields |-> fields]
\* a wrapper whose _original_func carries _typed_model
TypedOriginal(fields) == [kind |-> "typed_original", fields |-> fields]

CommandDefs ==
  { [module |-> "core", name |-> "status", handler |-> PlainHandler,
     aliases |-> <<>>],
    [module |-> "core", name |-> "log", handler |-> TypedOriginal(<<FieldLevel>>),
     aliases |-> <<>>],
    [module |-> "database", name |-> "connect",
     handler |-> TypedOriginal(<<FieldHost, FieldMaxRows>>),
     aliases |-> << <<"db", "conn">> >>],
    [module |-> "database", name |-> "query",
     handler |-> TypedWrapper(<<FieldSql>>),
     aliases |-> << <<"db", "query">> >>],
    [module |-> "ssh", name |-> "tail", handler |-> PlainHandler,
     aliases |-> << <<"log", "tail">> >>] }

LazyDecls ==
  { [module |-> "database", commands |-> <<"query", "connect">>],
    [module |-> "database", commands |-> <<"connect">>],
    [module |-> "ssh", commands |-> <<"tail">>] }

(* ---------------------------------------------------------------------- *)
(* str ordering, sorted(), str operations                                 *)
(* ---------------------------------------------------------------------- *)
\* the words of the model in the order of Python's str comparison
SortedWords ==
  <<"conn", "connect", "core", "database", "db", "files", "fs", "log",
    "query", "ssh", "status", "tail">>

Rank(w) == CHOOSE i \in 1..Len(SortedWords) : SortedWords[i] = w

StrLess(a, b) == Rank(a) < Rank(b)

RECURSIVE InsertSorted(_, _)
InsertSorted(w, s) ==
  IF s = <<>> THEN <<w>>
  ELSE IF StrLess(w, Head(s)) THEN <<w>> \o s
  ELSE <<Head(s)>> \o InsertSorted(w, Tail(s))

RECURSIVE sorted(_)
sorted(s) ==
  IF s = <<>> THEN <<>>
  ELSE InsertSorted(s[Len(s)], sorted(SubSeq(s, 1, Len(s) - 1)))

Range(s) == {s[i] : i \in 1..Len(s)}

RECURSIVE SetToSeq(_)
SetToSeq(S) ==
  IF S = {} THEN <<>>
  ELSE LET x == CHOOSE y \in S : TRUE IN <<x>> \o SetToSeq(S \ {x})

\* sorted(a_set)
SortedSet(S) == sorted(SetToSeq(S))

RECURSIVE JoinWords(_)
JoinWords(ws) ==
  IF ws = <<>> THEN ""
  ELSE IF Len(ws) = 1 THEN ws[1]
  ELSE ws[1] \o " " \o JoinWords(Tail(ws))

RECURSIVE Concat(_)
Concat(cs) == IF cs = <<>> THEN "" ELSE Head(cs) \o Concat(Tail(cs))

\* field_name.replace('_', '-')
ReplaceUnderscore(f) == [i \in 1..Len(f) |-> IF f[i] = "_" THEN "-" ELSE f[i]]

LongOpt(f) == "--" \o Concat(ReplaceUnderscore(f))

ShortOpt(f) == "-" \o f[1]

(* ---------------------------------------------------------------------- *)
(* dict helpers                                                           *)
(* ---------------------------------------------------------------------- *)
EmptyDict == [k \in {} |-> <<>>]

DictSet(d, k, v) == [x \in (DOMAIN d) \cup {k} |-> IF x = k THEN v ELSE d[x]]

\* d.update(e)
DictUpdate(d, e) ==
  [x \in (DOMAIN d) \cup (DOMAIN e) |-> IF x \in DOMAIN e THEN e[x] ELSE d[x]]

(* ---------------------------------------------------------------------- *)
(* CommandRegistry queries (pure; the registry state is passed in)         *)
(* ---------------------------------------------------------------------- *)
\* self._modules.get(name): <<>> is None, <<m>> the instance
get_module(mods, name) ==
  LET S == {i \in 1..Len(mods) : mods[i].name = name}
  IN IF S = {} THEN <<>> ELSE <<mods[CHOOSE i \in S : TRUE]>>

RECURSIVE list_module_commands(_, _)
list_module_commands(cmap, module_name) ==
  IF cmap = <<>> THEN <<>>
  ELSE (IF Head(cmap).module = module_name THEN <<Head(cmap).name>> ELSE <<>>)
       \o list_module_commands(Tail(cmap), module_name)

\* full_command of register_command: the bare command name for core
FullCommand(module_name, command_name) ==
  IF module_name # "core" THEN <<module_name, command_name>> ELSE <<command_name>>

HasCommand(cmap, full) == \E i \in 1..Len(cmap) : cmap[i].full = full

HasAlias(amap, alias) == \E i \in 1..Len(amap) : amap[i].alias = alias

\* self._alias_map[alias] = full_command (an existing key keeps its position)
AliasMapSet(amap, alias, full) ==
  IF HasAlias(amap, alias)
  THEN [i \in 1..Len(amap) |->
          IF amap[i].alias = alias THEN [alias |-> alias, full |-> full] ELSE amap[i]]
  ELSE Append(amap, [alias |-> alias, full |-> full])

RECURSIVE AliasMapSetAll(_, _, _)
AliasMapSetAll(amap, aliases, full) ==
  IF aliases = <<>> THEN amap
  ELSE AliasMapSetAll(AliasMapSet(amap, Head(aliases), full), Tail(aliases), full)

(* ---------------------------------------------------------------------- *)
(* AutoCompleter helpers                                                  *)
(* ---------------------------------------------------------------------- *)
\* truth value of module.aliases
Truthy(a) == a.kind # "none" /\ a.items # <<>>

_get_short_alias(mods, module_name) ==
  LET m == get_module(mods, module_name)
  IN IF m # <<>> /\ Truthy(m[1].aliases) THEN m[1].aliases ELSE AliasNone

\* short_alias == alias, for a str alias
AliasEquals(a, word) == a.kind = "str" /\ a.items = <<word>>

\* a list is unhashable: set.add and dict item assignment raise TypeError
Unhashable(a) == a.kind = "list"

_resolve_module_alias(mods, alias) ==
  LET S == {i \in 1..Len(mods) :
              AliasEquals(_get_short_alias(mods, mods[i].name), alias)}
  IN IF S = {} THEN <<>>
     ELSE <<mods[CHOOSE i \in S : \A j \in S : i <= j].name>>

\* hasattr(self._registry, "_lazy_tracker"): CommandRegistry has no such attribute
HasLazyTracker == FALSE

(* ---------------------------------------------------------------------- *)
(* build_completion_dict, phase by phase.  The locals of one call are the  *)
(* record b = [d, all_modules, raised]: the dictionary under construction, *)
(* the set all_modules, and whether an exception has propagated.           *)
(* ---------------------------------------------------------------------- *)
NewBuild == [d |-> EmptyDict, all_modules |-> {}, raised |-> FALSE]

\* step 1: completion_dict[""] = sorted(core commands)
PhaseCore(b, cmap) ==
  [b EXCEPT !.d = DictSet(b.d, <<>>, sorted(list_module_commands(cmap, "core")))]

\* the names the loops of step 2 visit: registered non-core modules, and in
\* the enhanced revision the keys of _lazy_module_commands; the packaged
\* revision reads the lazy names from registry._lazy_tracker
TopNames(rv, mods, lz) ==
  {mods[i].name : i \in {j \in 1..Len(mods) : mods[j].name # "core"}}
  \cup (IF rv = "enhanced" THEN {lz[i].name : i \in 1..Len(lz)}
        ELSE IF HasLazyTracker THEN {lz[i].name : i \in 1..Len(lz)} ELSE {})

ShortAliasWords(mods, names) ==
  {a.items[1] : a \in {x \in {_get_short_alias(mods, n) : n \in names} : x.kind = "str"}}

\* step 2: all_modules, then the top-level list; all_modules.add(short_name)
\* raises TypeError for a list
PhaseTopPackaged(b, mods, lz) ==
  LET names == TopNames("packaged", mods, lz)
      all == names \cup ShortAliasWords(mods, names)
  IN IF \E n \in names : Unhashable(_get_short_alias(mods, n))
     THEN [b EXCEPT !.raised = TRUE]
     ELSE [b EXCEPT !.all_modules = all, !.d = DictSet(b.d, <<>>, SortedSet(all))]

PhaseTopEnhanced(b, mods, lz) ==
  LET names == TopNames("enhanced", mods, lz)
      all == names \cup ShortAliasWords(mods, names)
  IN IF \E n \in names : Unhashable(_get_short_alias(mods, n))
     THEN [b EXCEPT !.raised = TRUE]
     ELSE [b EXCEPT !.all_modules = all,
                    !.d = DictSet(b.d, <<>>, b.d[<<>>] \o SortedSet(all))]

PhaseTop(rv, b, mods, lz) ==
  IF rv = "packaged" THEN PhaseTopPackaged(b, mods, lz)
  ELSE PhaseTopEnhanced(b, mods, lz)

\* packaged step 5: one entry per loaded non-core module and per short alias
RECURSIVE ModuleEntriesPackaged(_, _, _, _)
ModuleEntriesPackaged(b, rest, mods, cmap) ==
  IF rest = <<>> \/ b.raised THEN b
  ELSE LET m == Head(rest)
           commands == list_module_commands(cmap, m.name)
           short_name == _get_short_alias(mods, m.name)
           d1 == DictSet(b.d, <<m.name>>, sorted(commands))
       IN IF m.name = "core" THEN ModuleEntriesPackaged(b, Tail(rest), mods, cmap)
          ELSE IF Unhashable(short_name) THEN [b EXCEPT !.d = d1, !.raised = TRUE]
          ELSE IF short_name.kind = "str"
          THEN ModuleEntriesPackaged(
                 [b EXCEPT !.d = DictSet(d1, <<short_name.items[1]>>, sorted(commands))],
                 Tail(rest), mods, cmap)
          ELSE ModuleEntriesPackaged([b EXCEPT !.d = d1], Tail(rest), mods, cmap)

RECURSIVE LazyGet(_, _)
LazyGet(lz, module_name) ==
  IF lz = <<>> THEN <<>>
  ELSE IF Head(lz).name = module_name THEN Head(lz).commands
  ELSE LazyGet(Tail(lz), module_name)

\* enhanced step 3: one entry per member of all_modules that has commands
EnhancedCommands(module_name, mods, cmap, lz) ==
  LET r == _resolve_module_alias(mods, module_name)
      full_module_name == IF r # <<>> THEN r[1] ELSE module_name
  IN IF get_module(mods, full_module_name) # <<>>
     THEN list_module_commands(cmap, full_module_name)
     ELSE LazyGet(lz, full_module_name)

ModuleEntriesEnhanced(b, mods, cmap, lz) ==
  LET withCmds == {n \in b.all_modules : EnhancedCommands(n, mods, cmap, lz) # <<>>}
  IN [b EXCEPT !.d =
        [k \in (DOMAIN b.d) \cup {<<n>> : n \in withCmds} |->
           IF \E n \in withCmds : k = <<n>>
           THEN sorted(EnhancedCommands(k[1], mods, cmap, lz))
           ELSE b.d[k]]]

PhaseModules(rv, b, mods, cmap, lz) ==
  IF rv = "packaged" THEN ModuleEntriesPackaged(b, mods, mods, cmap)
  ELSE ModuleEntriesEnhanced(b, mods, cmap, lz)

\* packaged step 6: declared modules that have no entry yet
RECURSIVE LazyEntriesPackaged(_, _, _)
LazyEntriesPackaged(b, rest, mods) ==
  IF rest = <<>> \/ b.raised THEN b
  ELSE LET e == Head(rest)
           short_name == _get_short_alias(mods, e.name)
           d1 == DictSet(b.d, <<e.name>>, sorted(e.commands))
       IN IF <<e.name>> \in DOMAIN b.d THEN LazyEntriesPackaged(b, Tail(rest), mods)
          ELSE IF Unhashable(short_name) THEN [b EXCEPT !.d = d1, !.raised = TRUE]
          ELSE IF short_name.kind = "str"
          THEN LazyEntriesPackaged(
                 [b EXCEPT !.d = DictSet(d1, <<short_name.items[1]>>, sorted(e.commands))],
                 Tail(rest), mods)
          ELSE LazyEntriesPackaged([b EXCEPT !.d = d1], Tail(rest), mods)

\* the enhanced revision has no separate lazy step
PhaseLazy(rv, b, mods, lz) ==
  IF rv = "packaged" THEN LazyEntriesPackaged(b, lz, mods) ELSE b

\* variant: the two parts of the alias are taken the wrong way round
RECURSIVE AliasEntries_Swapped(_, _)
AliasEntries_Swapped(d, rest) ==
  IF rest = <<>> THEN d
  ELSE LET alias == Head(rest).alias
           alias_module == <<JoinWords(Tail(alias))>>
           alias_cmd == alias[1]
           d1 == IF alias_module \notin DOMAIN d THEN DictSet(d, alias_module, <<>>) ELSE d
           d2 == IF alias_cmd \notin Range(d1[alias_module])
                 THEN DictSet(d1, alias_module, Append(d1[alias_module], alias_cmd))
                 ELSE d1
       IN IF Len(alias) >= 2 THEN AliasEntries_Swapped(d2, Tail(rest))
          ELSE AliasEntries_Swapped(d, Tail(rest))

\* alias merge: for "<module> <command>" make sure the key exists and append
RECURSIVE AliasEntries(_, _)
AliasEntries(d, rest) ==
  IF rest = <<>> THEN d
  ELSE LET alias == Head(rest).alias
           alias_module == <<alias[1]>>
           alias_cmd == JoinWords(Tail(alias))
           d1 == IF alias_module \notin DOMAIN d THEN DictSet(d, alias_module, <<>>) ELSE d
           d2 == IF alias_cmd \notin Range(d1[alias_module])
                 THEN DictSet(d1, alias_module, Append(d1[alias_module], alias_cmd))
                 ELSE d1
       IN IF Len(alias) >= 2 THEN AliasEntries(d2, Tail(rest))
          ELSE AliasEntries(d, Tail(rest))

PhaseAliases(b, amap) == [b EXCEPT !.d = AliasEntries(b.d, amap)]

\* hasattr(handler, "_original_func") and hasattr(original_func, "_typed_model")
HasTypedModel(handler) == handler.kind = "typed_original"

RECURSIVE ParamTokens(_)
ParamTokens(fields) ==
  IF fields = <<>> THEN <<>>
  ELSE (IF Len(Head(fields)) > 0
        THEN <<LongOpt(Head(fields)), ShortOpt(Head(fields))>>
        ELSE <<LongOpt(Head(fields))>>)
       \o ParamTokens(Tail(fields))

RECURSIVE ParamAliasEntries(_, _, _, _)
ParamAliasEntries(pd, rest, full_cmd, params) ==
  IF rest = <<>> THEN pd
  ELSE ParamAliasEntries(
         IF Head(rest).full = full_cmd THEN DictSet(pd, Head(rest).alias, params) ELSE pd,
         Tail(rest), full_cmd, params)

RECURSIVE ParamEntries(_, _, _)
ParamEntries(pd, rest, amap) ==
  IF rest = <<>> THEN pd
  ELSE LET c == Head(rest)
           params == ParamTokens(c.handler.fields)
       IN IF HasTypedModel(c.handler) /\ params # <<>>
          THEN ParamEntries(
                 ParamAliasEntries(DictSet(pd, c.full, params), amap, c.full, params),
                 Tail(rest), amap)
          ELSE ParamEntries(pd, Tail(rest), amap)

_build_parameter_completions(cmap, amap) == ParamEntries(EmptyDict, cmap, amap)

PhaseParams(b, cmap, amap) ==
  [b EXCEPT !.d = DictUpdate(b.d, _build_parameter_completions(cmap, amap))]

\* the phases of one call in program order
Phases == <<"core", "top", "modules", "lazy", "aliases", "params">>

RunPhase(rv, phase, b, mods, cmap, amap, lz) ==
  IF b.raised THEN b
  ELSE IF phase = "core" THEN PhaseCore(b, cmap)
  ELSE IF phase = "top" THEN PhaseTop(rv, b, mods, lz)
  ELSE IF phase = "modules" THEN PhaseModules(rv, b, mods, cmap, lz)
  ELSE IF phase = "lazy" THEN PhaseLazy(rv, b, mods, lz)
  ELSE IF phase = "aliases" THEN PhaseAliases(b, amap)
  ELSE PhaseParams(b, cmap, amap)

RECURSIVE RunPhases(_, _, _, _, _, _, _)
RunPhases(rv, i, b, mods, cmap, amap, lz) ==
  IF i > Len(Phases) THEN b
  ELSE RunPhases(rv, i + 1, RunPhase(rv, Phases[i], b, mods, cmap, amap, lz),
                 mods, cmap, amap, lz)

\* a complete rebuild against one registry state
Rebuild(rv, mods, cmap, amap, lz) == RunPhases(rv, 1, NewBuild, mods, cmap, amap, lz)

(* ---------------------------------------------------------------------- *)
(* str operations on characters: a str is a string, s[i] is CharAt(s, i)  *)
(* ---------------------------------------------------------------------- *)
CharAt(s, i) == SubSeq(s, i, i)

UpperLetters == "ABCDEFGHIJKLMNOPQRSTUVWXYZ"

LowerLetters == "abcdefghijklmnopqrstuvwxyz"

\* the characters of the model in code point order
CodePoints == "\t -" \o UpperLetters \o "_" \o LowerLetters

Chars == {CharAt(CodePoints, i) : i \in 1..Len(CodePoints)}

OrdTable ==
  [c \in Chars |-> CHOOSE i \in 1..Len(CodePoints) : CharAt(CodePoints, i) = c]

\* ord(c)
Ord(c) == OrdTable[c]

LowerTable ==
  [c \in Chars |->
     IF \E i \in 1..Len(UpperLetters) : CharAt(UpperLetters, i) = c
     THEN CharAt(LowerLetters,
                 CHOOSE i \in 1..Len(UpperLetters) : CharAt(UpperLetters, i) = c)
     ELSE c]

LowerChar(c) == LowerTable[c]

\* str.lower
RECURSIVE lower(_)
lower(s) ==
  IF s = "" THEN "" ELSE LowerChar(CharAt(s, 1)) \o lower(SubSeq(s, 2, Len(s)))

\* str.startswith
startswith(s, p) == Len(p) <= Len(s) /\ SubSeq(s, 1, Len(p)) = p

\* str.endswith
endswith(s, p) == Len(p) <= Len(s) /\ SubSeq(s, Len(s) - Len(p) + 1, Len(s)) = p

\* a < b on str
RECURSIVE StrLt(_, _)
StrLt(a, b) ==
  IF b = "" THEN FALSE
  ELSE IF a = "" THEN TRUE
  ELSE IF CharAt(a, 1) = CharAt(b, 1)
  THEN StrLt(SubSeq(a, 2, Len(a)), SubSeq(b, 2, Len(b)))
  ELSE Ord(CharAt(a, 1)) < Ord(CharAt(b, 1))

RECURSIVE InsertStr(_, _)
InsertStr(w, s) ==
  IF s = <<>> THEN <<w>>
  ELSE IF StrLt(w, Head(s)) THEN <<w>> \o s
  ELSE <<Head(s)>> \o InsertStr(w, Tail(s))

\* sorted(list of str), for lists that hold parameter tokens as well
RECURSIVE SortedStr(_)
SortedStr(s) ==
  IF s = <<>> THEN <<>>
  ELSE InsertStr(s[Len(s)], SortedStr(SubSeq(s, 1, Len(s) - 1)))

\* the characters str.split() splits on
Whitespace == {" ", "\t", "\n"}

\* str.split(): the maximal runs of non-whitespace characters
RECURSIVE SplitFrom(_, _, _)
SplitFrom(s, i, cur) ==
  IF i > Len(s) THEN (IF cur = "" THEN <<>> ELSE <<cur>>)
  ELSE IF CharAt(s, i) \in Whitespace
  THEN (IF cur = "" THEN <<>> ELSE <<cur>>) \o SplitFrom(s, i + 1, "")
  ELSE SplitFrom(s, i + 1, cur \o CharAt(s, i))

split(s) == SplitFrom(s, 1, "")

Min(a, b) == IF a <= b THEN a ELSE b

Min3(a, b, c) == Min(a, Min(b, c))

Max(a, b) == IF a >= b THEN a ELSE b

Abs(a) == IF a >= 0 THEN a ELSE 0 - a

\* a list with its elements computed
List(f) == SubSeq(f, 1, Len(f))

\* [x for x in items if ...]: the elements at the kept indices, in their order
SelectIn(items, kept) ==
  LET nth(k) == CHOOSE n \in kept : Cardinality({m \in kept : m < n}) = k - 1
  IN List([k \in 1..Cardinality(kept) |-> items[nth(k)]])

(* ---------------------------------------------------------------------- *)
(* FuzzyMatcher: scores.  A score is the fraction num/den (the            *)
(* implementation revision adds len(query) / len(candidate) * 10).        *)
(* ---------------------------------------------------------------------- *)
Score(n) == [num |-> n, den |-> 1]

ScoreLt(a, b) == a.num * b.den < b.num * a.den

ScoreEq(a, b) == a.num * b.den = b.num * a.den

ScoreLe(a, b) == a.num * b.den <= b.num * a.den

MatchResult(candidate, score, match_type) ==
  [candidate |-> candidate, score |-> score, match_type |-> match_type]

\* c1 != c2, on folded characters (c1.lower() != c2.lower()) if fold
Differs(c1, c2, fold) ==
  IF fold THEN LowerChar(c1) # LowerChar(c2) ELSE c1 # c2

\* variant: a substitution costs as much as a deletion plus an insertion
LevCell_NoSubstitution(c1, c2, previous_row, current_row, j, fold) ==
  Min3(previous_row[j + 1] + 1,
       current_row[j] + 1,
       previous_row[j] + (IF Differs(c1, c2, fold) THEN 2 ELSE 0))

\* min(insertions, deletions, substitutions) for column j of the current row
LevCell(c1, c2, previous_row, current_row, j, fold) ==
  Min3(previous_row[j + 1] + 1,
       current_row[j] + 1,
       previous_row[j] + (IF Differs(c1, c2, fold) THEN 1 ELSE 0))

\* the inner loop of _levenshtein_distance: one row of the table; the column
\* the loop stands at is the number of entries current_row has
RECURSIVE LevRow(_, _, _, _, _)
LevRow(c1, s2, previous_row, current_row, fold) ==
  IF Len(current_row) > Len(s2) THEN current_row
  ELSE LevRow(c1, s2, previous_row,
              Append(current_row,
                     LevCell(c1, CharAt(s2, Len(current_row)), previous_row,
                             current_row, Len(current_row), fold)),
              fold)

\* the outer loop: the rows for the characters of s1
RECURSIVE LevRows(_, _, _, _, _)
LevRows(s1, s2, previous_row, i, fold) ==
  IF i > Len(s1) THEN previous_row
  ELSE LevRows(s1, s2, LevRow(CharAt(s1, i), s2, previous_row, <<i>>, fold),
               i + 1, fold)

RECURSIVE LevDistance(_, _, _)
LevDistance(s1, s2, fold) ==
  IF Len(s1) < Len(s2) THEN LevDistance(s2, s1, fold)
  ELSE IF Len(s2) = 0 THEN Len(s1)
  ELSE LevRows(s1, s2, [k \in 1..(Len(s2) + 1) |-> k - 1], 1, fold)[Len(s2) + 1]

(* ---------------------------------------------------------------------- *)
(* FuzzyMatcher of core/completion/fuzzy_matcher.py                       *)
(* ---------------------------------------------------------------------- *)
\* the loop of _subsequence_match over the candidate's characters
RECURSIVE PkgScan(_, _, _, _, _, _)
PkgScan(query_lower, candidate_lower, k, i, last_match_pos, consecutive_bonus) ==
  IF k > Len(candidate_lower) THEN [i |-> i, consecutive_bonus |-> consecutive_bonus]
  ELSE IF i < Len(query_lower) /\ CharAt(candidate_lower, k) = CharAt(query_lower, i + 1)
  THEN PkgScan(query_lower, candidate_lower, k + 1, i + 1, i,
               IF last_match_pos >= 0 /\ i = last_match_pos + 1
               THEN consecutive_bonus + 5 ELSE consecutive_bonus)
  ELSE PkgScan(query_lower, candidate_lower, k + 1, i, last_match_pos, consecutive_bonus)

Pkg_subsequence_match(query, candidate) ==
  IF query = "" \/ Len(query) > Len(candidate) THEN 0
  ELSE LET scan == PkgScan(lower(query), lower(candidate), 1, 0, -1, 0)
       IN IF scan.i # Len(query) THEN 0
          ELSE 50 + scan.consecutive_bonus + Min(20, Len(query) * 2)

Pkg_levenshtein_distance(s1, s2) == LevDistance(s1, s2, TRUE)

Pkg_levenshtein_match(query, candidate) ==
  LET longest == Max(Len(query), Len(candidate))
  IN IF query = "" THEN 0
     \* abs(len(query) - len(candidate)) > max(...) * 0.5
     ELSE IF 2 * Abs(Len(query) - Len(candidate)) > longest THEN 0
     ELSE LET distance == Pkg_levenshtein_distance(query, candidate)
              \* max(3, int(max(...) * 0.3))
              max_distance == Max(3, (3 * longest) \div 10)
          IN IF distance > max_distance THEN 0
             ELSE Max(30, 80 - distance * 10)

\* the body of the loop of match; match_type records the tier that scored
\* (MatchResult of this revision has no such field)
Pkg_match_single(query, candidate) ==
  IF startswith(candidate, query) THEN MatchResult(candidate, Score(100), "prefix")
  ELSE LET subseq_score == Pkg_subsequence_match(query, candidate)
       IN IF subseq_score > 0
          THEN MatchResult(candidate, Score(subseq_score), "subsequence")
          ELSE LET lev_score == Pkg_levenshtein_match(query, candidate)
               IN IF lev_score > 0
                  THEN MatchResult(candidate, Score(lev_score), "levenshtein")
                  ELSE MatchResult(candidate, Score(0), "none")

(* ---------------------------------------------------------------------- *)
(* FuzzyMatcher of fuzzy_matcher_implementation.py                        *)
(* ---------------------------------------------------------------------- *)
\* the constructor's defaults, as AutoCompleter passes them
DefaultMatcher ==
  [enable_prefix |-> TRUE, enable_subsequence |-> TRUE, enable_levenshtein |-> TRUE,
   max_levenshtein_distance |-> 3]

\* position of the first ch in s at or after position k, 0 if there is none
RECURSIVE Find(_, _, _)
Find(s, ch, k) ==
  IF k > Len(s) THEN 0
  ELSE IF CharAt(s, k) = ch THEN k
  ELSE Find(s, ch, k + 1)

\* all(char in it for char in query) with it = iter(candidate)
RECURSIVE IsSubsequenceFrom(_, _, _, _)
IsSubsequenceFrom(query, candidate, q, k) ==
  IF q > Len(query) THEN TRUE
  ELSE LET at == Find(candidate, CharAt(query, q), k)
       IN IF at = 0 THEN FALSE
          ELSE IsSubsequenceFrom(query, candidate, q + 1, at + 1)

_is_subsequence(query, candidate) == IsSubsequenceFrom(query, candidate, 1, 1)

\* the loop of _count_consecutive_matches: k is where the shared iterator
\* stands, enumerate(it) numbers the characters from 0 in every search
RECURSIVE CountFrom(_, _, _, _, _, _)
CountFrom(query, candidate, q, k, prev_pos, count) ==
  IF q > Len(query) THEN count
  ELSE LET at == Find(candidate, CharAt(query, q), k)
       IN IF at = 0
          THEN CountFrom(query, candidate, q + 1, Len(candidate) + 1, prev_pos, count)
          ELSE LET i == at - k
               IN CountFrom(query, candidate, q + 1, at + 1, i,
                            IF prev_pos = -1 \/ i = prev_pos + 1 THEN count + 1 ELSE 1)

_count_consecutive_matches(query, candidate) ==
  Max(0, CountFrom(query, candidate, 1, 1, -1, 0))

\* min(score, 90.0) of the score 50 + bonuses + len(query) / len(candidate) * 10
Impl_subsequence_match(query, candidate) ==
  IF ~_is_subsequence(query, candidate) THEN Score(0)
  ELSE LET consecutive_count == _count_consecutive_matches(query, candidate)
           whole == 50 + Min(consecutive_count * 10, 20)
                       + (IF CharAt(candidate, 1) = CharAt(query, 1) THEN 10 ELSE 0)
           score == [num |-> whole * Len(candidate) + 10 * Len(query),
                     den |-> Len(candidate)]
       IN IF ScoreLt(Score(90), score) THEN Score(90) ELSE score

Impl_levenshtein_distance(s1, s2) == LevDistance(s1, s2, FALSE)

\* variant: every distance beyond 3 scores like 3
_levenshtein_to_score_Flat(distance) ==
  IF distance = 0 THEN 100
  ELSE IF distance = 1 THEN 80
  ELSE IF distance = 2 THEN 60
  ELSE IF distance = 3 THEN 40
  ELSE 40

_levenshtein_to_score(distance) ==
  IF distance = 0 THEN 100
  ELSE IF distance = 1 THEN 80
  ELSE IF distance = 2 THEN 60
  ELSE IF distance = 3 THEN 40
  ELSE Max(0, 40 - (distance - 3) * 10)

\* variant: the prefix test compares the strings as typed
_match_single_CaseSensitive(self, query, candidate) ==
  LET query_lower == lower(query)
      candidate_lower == lower(candidate)
      subsequence_score == Impl_subsequence_match(query_lower, candidate_lower)
      distance == Impl_levenshtein_distance(query_lower, candidate_lower)
  IN IF self.enable_prefix /\ startswith(candidate, query)
     THEN MatchResult(candidate, Score(100), "prefix")
     ELSE IF self.enable_subsequence /\ ScoreLt(Score(0), subsequence_score)
     THEN MatchResult(candidate, subsequence_score, "subsequence")
     ELSE IF self.enable_levenshtein /\ distance <= self.max_levenshtein_distance
     THEN MatchResult(candidate, Score(_levenshtein_to_score(distance)), "levenshtein")
     ELSE MatchResult(candidate, Score(0), "none")

_match_single(self, query, candidate) ==
  LET query_lower == lower(query)
      candidate_lower == lower(candidate)
      subsequence_score == Impl_subsequence_match(query_lower, candidate_lower)
      distance == Impl_levenshtein_distance(query_lower, candidate_lower)
  IN IF self.enable_prefix /\ startswith(candidate_lower, query_lower)
     THEN MatchResult(candidate, Score(100), "prefix")
     ELSE IF self.enable_subsequence /\ ScoreLt(Score(0), subsequence_score)
     THEN MatchResult(candidate, subsequence_score, "subsequence")
     ELSE IF self.enable_levenshtein /\ distance <= self.max_levenshtein_distance
     THEN MatchResult(candidate, Score(_levenshtein_to_score(distance)), "levenshtein")
     ELSE MatchResult(candidate, Score(0), "none")

(* ---------------------------------------------------------------------- *)
(* FuzzyMatcher.match of both revisions                                   *)
(* ---------------------------------------------------------------------- *)
\* variant: the results stay in the order of the candidates
SortByScore_Unsorted(s) == s

\* list.sort by descending score, a stable sort: an element comes after the
\* elements that score more and after the earlier elements that score the same
SortByScore(s) ==
  LET place(i) ==
        1 + Cardinality({j \in 1..Len(s) : ScoreLt(s[i].score, s[j].score)})
          + Cardinality({j \in 1..(i - 1) : ScoreEq(s[j].score, s[i].score)})
  IN List([k \in 1..Len(s) |-> s[CHOOSE i \in 1..Len(s) : place(i) = k]])

Positive(r) == ScoreLt(Score(0), r.score)

\* [r for r in results if r.score > 0]
PositiveIn(results) ==
  SelectIn(results, {n \in 1..Len(results) : Positive(results[n])})

\* match of core/completion/fuzzy_matcher.py without its cache
PkgMatch(query, candidates) ==
  IF query = ""
  THEN [i \in 1..Len(candidates) |-> MatchResult(candidates[i], Score(100), "none")]
  ELSE SortByScore(PositiveIn(List([i \in 1..Len(candidates) |->
                                       Pkg_match_single(query, candidates[i])])))

\* variant: the results of score 0 are returned too
ImplMatch_Unfiltered(self, query, candidates) ==
  IF query = ""
  THEN [i \in 1..Len(candidates) |-> MatchResult(candidates[i], Score(0), "none")]
  ELSE (SortByScore(List([i \in 1..Len(candidates) |->
                                      _match_single(self, query, candidates[i])])))

\* match of fuzzy_matcher_implementation.py
ImplMatch(self, query, candidates) ==
  IF query = ""
  THEN [i \in 1..Len(candidates) |-> MatchResult(candidates[i], Score(0), "none")]
  ELSE PositiveIn(SortByScore(List([i \in 1..Len(candidates) |->
                                      _match_single(self, query, candidates[i])])))

\* the entry of self._cache under (query, tuple(candidates)), <<>> if none
CacheGet(cache, query, candidates) ==
  SelectIn(cache, {n \in 1..Len(cache) :
                     cache[n].query = query /\ cache[n].candidates = candidates})

\* variant: a hit moves the entry to the end of the cache (least recently used
\* first)
MatchCall_LRU(rv, self, cache, cache_size, query, candidates) ==
  IF rv = "enhanced"
  THEN [results |-> ImplMatch(self, query, candidates), cache |-> cache]
  ELSE IF query = ""
  THEN [results |-> PkgMatch(query, candidates), cache |-> cache]
  ELSE LET hit == CacheGet(cache, query, candidates)
           results == PkgMatch(query, candidates)
           kept == IF Len(cache) >= cache_size THEN Tail(cache) ELSE cache
           others == SelectIn(cache, {n \in 1..Len(cache) :
                                        ~(cache[n].query = query
                                          /\ cache[n].candidates = candidates)})
       IN IF hit # <<>>
          THEN [results |-> hit[1].results, cache |-> Append(others, hit[1])]
          ELSE [results |-> results,
                cache |-> Append(kept, [query |-> query, candidates |-> candidates,
                                        results |-> results])]

\* what match returns and the cache it leaves
MatchCall(rv, self, cache, cache_size, query, candidates) ==
  IF rv = "enhanced"
  THEN [results |-> ImplMatch(self, query, candidates), cache |-> cache]
  ELSE IF query = ""
  THEN [results |-> PkgMatch(query, candidates), cache |-> cache]
  ELSE LET hit == CacheGet(cache, query, candidates)
           results == PkgMatch(query, candidates)
           kept == IF Len(cache) >= cache_size THEN Tail(cache) ELSE cache
       IN IF hit # <<>>
          THEN [results |-> hit[1].results, cache |-> cache]
          ELSE [results |-> results,
                cache |-> Append(kept, [query |-> query, candidates |-> candidates,
                                        results |-> results])]

(* ---------------------------------------------------------------------- *)
(* State                                                                  *)
(* ---------------------------------------------------------------------- *)
VARIABLES
  rev,                    \* which AutoCompleter revision is attached
  _modules,               \* CommandRegistry._modules, insertion order
  _command_map,           \* CommandRegistry._command_map, insertion order
  _alias_map,             \* CommandRegistry._alias_map, insertion order
  _lazy_module_commands,  \* AutoCompleter._lazy_module_commands
  _completion_dict,       \* AutoCompleter._completion_dict: 0 is None, else a reference
  heap,                   \* the dict objects that are still referenced
  result,                 \* outcome of the latest build_completion_dict call
  invalidations,          \* _invalidate_cache calls since the latest build
  dropped,                \* one of them discarded a cached dictionary
  pc,                     \* completion threads: position in build_completion_dict
  completion_dict,        \* completion threads: the local completion_dict (reference)
  all_modules,            \* completion threads: the local all_modules
  returned,               \* completion threads: what the latest call to return gave
  lookup_start,           \* completion threads: inval_version when the call began
  wpc,                    \* registration thread: position in register_command
  warg,                   \* registration thread: the command being registered
  reg_version,            \* number of registry mutations so far
  inval_version,          \* reg_version at the latest completed invalidation
  _fuzzy_matcher,         \* AutoCompleter._fuzzy_matcher: the matcher's configuration
  _cache,                 \* FuzzyMatcher._cache (packaged revision), insertion order
  _cache_size,            \* FuzzyMatcher._cache_size
  matched,                \* the latest FuzzyMatcher.match call and its results
  completions,            \* the latest get_completions call and what it yielded
  _lazy_modules,          \* LazyModuleTracker._lazy_modules: name -> module class
  _loaded_modules,        \* LazyModuleTracker._loaded_modules
  _alias_to_module,       \* LazyModuleTracker._alias_to_module: alias -> name
  instances,              \* module instances created so far
  loaded_instance,        \* name -> the instance the first successful load returned
  loader_call,            \* the latest call on the loader or the module register
  distance,               \* the latest _levenshtein_distance call and its value
  meta                    \* the latest _get_completion_meta call and its outcome

thread_vars == <<pc, completion_dict, all_modules, returned, lookup_start, wpc,
                 warg, reg_version, inval_version>>

call_vars == <<result, invalidations, dropped>>

vars == <<rev, _modules, _command_map, _alias_map, _lazy_module_commands,
          _completion_dict, heap, result, invalidations, dropped, pc,
          completion_dict, all_modules, returned, lookup_start, wpc, warg,
          reg_version, inval_version, _fuzzy_matcher, _cache, _cache_size, matched,
          completions, _lazy_modules, _loaded_modules, _alias_to_module,
          instances, loaded_instance, loader_call, distance, meta>>

index_vars == <<rev, _modules, _command_map, _alias_map, _lazy_module_commands,
                _completion_dict, heap>>

lookup_vars == <<_fuzzy_matcher, _cache, _cache_size, matched, completions>>

loader_vars == <<_lazy_modules, _loaded_modules, _alias_to_module, instances,
                 loaded_instance, loader_call>>

\* the completion threads of prompt_toolkit (complete_in_thread=True)
Readers == {"t1", "t2"}

\* the number of steps build_completion_dict runs before it publishes
NumPhases(rv) == IF rv = "packaged" THEN Len(Phases) ELSE Len(Phases) - 1

NoResult ==
  [kind |-> "none", ref |-> 0, fresh |-> FALSE, invalidations |-> 0, dropped |-> FALSE]

NoReturn == [kind |-> "none", complete |-> FALSE, current |-> FALSE]

\* what a completion thread gets back: a dict object o, seen at the return
ReturnOf(o, rv, start) ==
  [kind |-> "dict", complete |-> (o.done = NumPhases(rv)), current |-> (o.oldest >= start)]

NoCommand == [module |-> "", name |-> "", handler |-> PlainHandler, aliases |-> <<>>]

NoMatch == [called |-> FALSE, query |-> "", candidates |-> <<>>, results |-> <<>>]

NoCompletions ==
  [kind |-> "none", text |-> "", prefix |-> <<>>, word |-> "", candidates |-> <<>>,
   matches |-> <<>>, yielded |-> <<>>]

NoMeta == [called |-> FALSE, match |-> "", prefix |-> <<>>, outcome |-> "none", value |-> ""]

NoDistance == [called |-> FALSE, s1 |-> "", s2 |-> "", value |-> 0]

NoLoaderCall ==
  [op |-> "none", name |-> "", outcome |-> "none", module |-> 0,
   registering |-> FALSE, callbacks |-> 0, was_loaded |-> FALSE,
   was_lazy |-> FALSE, was_registered |-> FALSE, succeeded |-> FALSE]

\* LazyModuleTracker.__init__, and a CommandRegistry with no module instance
InitLoader ==
  /\ _lazy_modules = [n \in {} |-> ""]
  /\ _loaded_modules = {}
  /\ _alias_to_module = [a \in {} |-> ""]
  /\ instances = 0
  /\ loaded_instance = [n \in {} |-> 0]
  /\ loader_call = NoLoaderCall

\* the registry and the completer's index as constructed
InitIndex ==
  /\ _modules = <<>>
  /\ _command_map = <<>>
  /\ _alias_map = <<>>
  /\ _lazy_module_commands = <<>>
  /\ _completion_dict = 0
  /\ heap = <<>>
  /\ result = NoResult
  /\ invalidations = 0
  /\ dropped = FALSE
  /\ pc = [t \in Readers |-> "idle"]
  /\ completion_dict = [t \in Readers |-> 0]
  /\ all_modules = [t \in Readers |-> {}]
  /\ returned = NoReturn
  /\ lookup_start = [t \in Readers |-> 0]
  /\ wpc = "idle"
  /\ warg = NoCommand
  /\ reg_version = 0
  /\ inval_version = 0

\* registry, completer and set_completer as constructed in PromptToolkitCLI.__init__
Init ==
  /\ rev \in Revisions
  /\ InitIndex
  /\ _fuzzy_matcher = DefaultMatcher
  /\ _cache = <<>>
  /\ _cache_size = MaxCache
  /\ matched = NoMatch
  /\ completions = NoCompletions
  /\ InitLoader
  /\ distance = NoDistance
  /\ meta = NoMeta

\* a reference no live object uses
NewRef(h) == CHOOSE i \in 1..(Cardinality(DOMAIN h) + 1) : i \notin DOMAIN h

\* drop the objects nothing refers to any more
Collect(h, live) == [i \in (DOMAIN h) \cap live |-> h[i]]

\* a dict object: the dictionary plus bookkeeping (phases completed, oldest
\* registry version read, whether it has been assigned to _completion_dict)
Object(d, done, oldest, published) ==
  [d |-> d, done |-> done, oldest |-> oldest, published |-> published]

(* ---------------------------------------------------------------------- *)
(* Operations, one call at a time                                         *)
(* ---------------------------------------------------------------------- *)
\* variant: the invalidation leaves the cached reference in place
InvalidatedCache_Kept(cache) == cache

\* AutoCompleter._invalidate_cache: self._completion_dict = None
InvalidatedCache(cache) == 0

CommandEntry(c) ==
  [full |-> FullCommand(c.module, c.name), module |-> c.module, name |-> c.name,
   handler |-> c.handler]

\* CommandRegistry.register_module: raises ValueError for a known name
register_module(m) ==
  /\ Len(_modules) < MaxModules
  /\ IF get_module(_modules, m.name) # <<>>
     THEN UNCHANGED _modules
     ELSE _modules' = Append(_modules, m)
  /\ result' = NoResult
  /\ heap' = Collect(heap, {_completion_dict})
  /\ UNCHANGED <<rev, _command_map, _alias_map, _lazy_module_commands,
                 _completion_dict, invalidations, dropped>>
  /\ UNCHANGED thread_vars
  /\ UNCHANGED lookup_vars
  /\ UNCHANGED loader_vars
  /\ UNCHANGED <<distance, meta>>

\* CommandRegistry.register_command: raises ValueError for a known command,
\* otherwise stores the command and its aliases and notifies the completer
register_command(c) ==
  /\ Len(_command_map) < MaxCommands
  /\ IF HasCommand(_command_map, FullCommand(c.module, c.name))
     THEN UNCHANGED <<_command_map, _alias_map, _completion_dict, invalidations,
                      dropped>>
     ELSE /\ _command_map' = Append(_command_map, CommandEntry(c))
          /\ _alias_map' = AliasMapSetAll(_alias_map, c.aliases,
                                          FullCommand(c.module, c.name))
          /\ _completion_dict' = InvalidatedCache(_completion_dict)
          /\ invalidations' = Min(invalidations + 1, MaxRefreshRun)
          /\ dropped' = (dropped \/ _completion_dict # 0)
  /\ result' = NoResult
  /\ heap' = Collect(heap, {_completion_dict'})
  /\ UNCHANGED <<rev, _modules, _lazy_module_commands>>
  /\ UNCHANGED thread_vars
  /\ UNCHANGED lookup_vars
  /\ UNCHANGED loader_vars
  /\ UNCHANGED <<distance, meta>>

RECURSIVE LazySet(_, _, _)
LazySet(lz, module_name, commands) ==
  IF lz = <<>> THEN <<[name |-> module_name, commands |-> commands]>>
  ELSE IF Head(lz).name = module_name
  THEN <<[name |-> module_name, commands |-> commands]>> \o Tail(lz)
  ELSE <<Head(lz)>> \o LazySet(Tail(lz), module_name, commands)

\* AutoCompleter.register_lazy_commands: merge, sort, refresh
register_lazy_commands(decl) ==
  /\ LET existing == Range(LazyGet(_lazy_module_commands, decl.module))
         new_commands == Range(decl.commands)
     IN _lazy_module_commands' =
          LazySet(_lazy_module_commands, decl.module,
                  SortedSet(existing \cup new_commands))
  /\ _completion_dict' = InvalidatedCache(_completion_dict)
  /\ invalidations' = Min(invalidations + 1, MaxRefreshRun)
  /\ dropped' = (dropped \/ _completion_dict # 0)
  /\ result' = NoResult
  /\ heap' = Collect(heap, {_completion_dict'})
  /\ UNCHANGED <<rev, _modules, _command_map, _alias_map>>
  /\ UNCHANGED thread_vars
  /\ UNCHANGED lookup_vars
  /\ UNCHANGED loader_vars
  /\ UNCHANGED <<distance, meta>>

\* AutoCompleter.refresh
refresh ==
  /\ invalidations < MaxRefreshRun
  /\ _completion_dict' = InvalidatedCache(_completion_dict)
  /\ invalidations' = invalidations + 1
  /\ dropped' = (dropped \/ _completion_dict # 0)
  /\ result' = NoResult
  /\ heap' = Collect(heap, {_completion_dict'})
  /\ UNCHANGED <<rev, _modules, _command_map, _alias_map, _lazy_module_commands>>
  /\ UNCHANGED thread_vars
  /\ UNCHANGED lookup_vars
  /\ UNCHANGED loader_vars
  /\ UNCHANGED <<distance, meta>>

\* the call build_completion_dict() and what it leaves in the completer
BuildCall ==
  /\ IF _completion_dict # 0
     THEN /\ result' = [kind |-> "dict", ref |-> _completion_dict, fresh |-> FALSE,
                        invalidations |-> invalidations, dropped |-> dropped]
          /\ heap' = Collect(heap, {_completion_dict})
          /\ UNCHANGED _completion_dict
     ELSE LET b == Rebuild(rev, _modules, _command_map, _alias_map,
                           _lazy_module_commands)
              ref == NewRef(heap)
          IN IF b.raised
             THEN /\ result' = [kind |-> "raised", ref |-> 0, fresh |-> FALSE,
                                invalidations |-> invalidations, dropped |-> dropped]
                  /\ heap' = Collect(heap, {})
                  /\ UNCHANGED _completion_dict
             ELSE /\ result' = [kind |-> "dict", ref |-> ref, fresh |-> TRUE,
                                invalidations |-> invalidations, dropped |-> dropped]
                  /\ heap' = (ref :> Object(b.d, NumPhases(rev), 0, TRUE))
                  /\ _completion_dict' = ref
  /\ invalidations' = 0
  /\ dropped' = FALSE

\* AutoCompleter.build_completion_dict, run to completion
build_completion_dict ==
  /\ BuildCall
  /\ UNCHANGED <<rev, _modules, _command_map, _alias_map, _lazy_module_commands>>
  /\ UNCHANGED thread_vars
  /\ UNCHANGED lookup_vars
  /\ UNCHANGED loader_vars
  /\ UNCHANGED <<distance, meta>>

Next ==
  \/ \E m \in ModuleDefs : register_module(m)
  \/ \E c \in CommandDefs : register_command(c)
  \/ \E decl \in LazyDecls : register_lazy_commands(decl)
  \/ refresh
  \/ build_completion_dict

Spec == Init /\ [][Next]_vars

(* ---------------------------------------------------------------------- *)
(* The same operations as threads: completion threads run                 *)
(* build_completion_dict step by step while the main thread registers     *)
(* modules and commands.  Each registry call and each dictionary store is *)
(* taken as one step.                                                     *)
(* ---------------------------------------------------------------------- *)
Live(cache, locals) == {cache} \cup {locals[t] : t \in Readers}

\* the modules and commands the main thread registers while completions run
ConcModuleDefs == {m \in ModuleDefs : m.name = "database"}

ConcCommandDefs == {c \in CommandDefs : c.module = "database" /\ c.name = "connect"}

NextPhase(rv, phase) ==
  IF phase = "core" THEN "top"
  ELSE IF phase = "top" THEN "modules"
  ELSE IF phase = "modules" THEN (IF rv = "packaged" THEN "lazy" ELSE "aliases")
  ELSE IF phase = "lazy" THEN "aliases"
  ELSE IF phase = "aliases" THEN "params"
  ELSE "publish"

\* if self._completion_dict is not None: ... else completion_dict = {}
Check(t) ==
  /\ pc[t] = "idle"
  /\ lookup_start' = [lookup_start EXCEPT ![t] = inval_version]
  /\ returned' = NoReturn
  /\ IF _completion_dict # 0
     THEN /\ pc' = [pc EXCEPT ![t] = "return_cached"]
          /\ UNCHANGED <<heap, completion_dict>>
     ELSE LET ref == NewRef(heap)
          IN /\ pc' = [pc EXCEPT ![t] = "core"]
             /\ completion_dict' = [completion_dict EXCEPT ![t] = ref]
             /\ heap' = Collect(heap @@ (ref :> Object(EmptyDict, 0, 0, FALSE)),
                                Live(_completion_dict, completion_dict'))
  /\ UNCHANGED <<rev, _modules, _command_map, _alias_map, _lazy_module_commands,
                 _completion_dict, all_modules, wpc, warg, reg_version,
                 inval_version>>
  /\ UNCHANGED call_vars
  /\ UNCHANGED lookup_vars
  /\ UNCHANGED loader_vars
  /\ UNCHANGED <<distance, meta>>

\* return self._completion_dict (the attribute is read a second time)
ReturnCached(t) ==
  /\ pc[t] = "return_cached"
  /\ pc' = [pc EXCEPT ![t] = "idle"]
  /\ returned' = IF _completion_dict = 0
                 THEN [kind |-> "None", complete |-> FALSE, current |-> FALSE]
                 ELSE ReturnOf(heap[_completion_dict], rev, lookup_start[t])
  /\ lookup_start' = [lookup_start EXCEPT ![t] = 0]
  /\ UNCHANGED <<rev, _modules, _command_map, _alias_map, _lazy_module_commands,
                 _completion_dict, heap, completion_dict, all_modules,
                 wpc, warg, reg_version, inval_version>>
  /\ UNCHANGED call_vars
  /\ UNCHANGED lookup_vars
  /\ UNCHANGED loader_vars
  /\ UNCHANGED <<distance, meta>>

\* one of the steps 1..8 on the local dictionary
Step(t) ==
  /\ pc[t] \in Range(Phases)
  /\ LET ref == completion_dict[t]
         b == RunPhase(rev, pc[t],
                       [d |-> heap[ref].d, all_modules |-> all_modules[t], raised |-> FALSE],
                       _modules, _command_map, _alias_map, _lazy_module_commands)
         oldest == IF pc[t] = "core" THEN reg_version ELSE heap[ref].oldest
     IN IF b.raised
        THEN /\ pc' = [pc EXCEPT ![t] = "idle"]
             /\ returned' = [kind |-> "raised", complete |-> FALSE, current |-> FALSE]
             /\ completion_dict' = [completion_dict EXCEPT ![t] = 0]
             /\ all_modules' = [all_modules EXCEPT ![t] = {}]
             /\ lookup_start' = [lookup_start EXCEPT ![t] = 0]
             /\ heap' = Collect(heap, Live(_completion_dict, completion_dict'))
        ELSE /\ pc' = [pc EXCEPT ![t] = NextPhase(rev, pc[t])]
             /\ all_modules' = [all_modules EXCEPT ![t] = b.all_modules]
             /\ heap' = [heap EXCEPT ![ref] =
                           Object(b.d, heap[ref].done + 1, oldest, heap[ref].published)]
             /\ UNCHANGED <<returned, completion_dict, lookup_start>>
  /\ UNCHANGED <<rev, _modules, _command_map, _alias_map, _lazy_module_commands,
                 _completion_dict, wpc, warg, reg_version, inval_version>>
  /\ UNCHANGED call_vars
  /\ UNCHANGED lookup_vars
  /\ UNCHANGED loader_vars
  /\ UNCHANGED <<distance, meta>>

\* variant: the assignment to self._completion_dict comes before step 8
Publish_Early(t) ==
  /\ pc[t] = "params"
  /\ _completion_dict # completion_dict[t]
  /\ _completion_dict' = completion_dict[t]
  /\ heap' = Collect([heap EXCEPT ![completion_dict[t]].published = TRUE],
                     Live(completion_dict[t], completion_dict))
  /\ UNCHANGED <<rev, _modules, _command_map, _alias_map, _lazy_module_commands,
                 pc, completion_dict, all_modules, returned, lookup_start, wpc,
                 warg, reg_version, inval_version>>
  /\ UNCHANGED call_vars
  /\ UNCHANGED lookup_vars
  /\ UNCHANGED loader_vars
  /\ UNCHANGED <<distance, meta>>

\* self._completion_dict = completion_dict; return completion_dict
Publish(t) ==
  /\ pc[t] = "publish"
  /\ LET ref == completion_dict[t]
     IN /\ _completion_dict' = ref
        /\ returned' = ReturnOf(heap[ref], rev, lookup_start[t])
        /\ completion_dict' = [completion_dict EXCEPT ![t] = 0]
        /\ heap' = Collect([heap EXCEPT ![ref].published = TRUE],
                           Live(ref, completion_dict'))
  /\ pc' = [pc EXCEPT ![t] = "idle"]
  /\ all_modules' = [all_modules EXCEPT ![t] = {}]
  /\ lookup_start' = [lookup_start EXCEPT ![t] = 0]
  /\ UNCHANGED <<rev, _modules, _command_map, _alias_map, _lazy_module_commands,
                 wpc, warg, reg_version, inval_version>>
  /\ UNCHANGED call_vars
  /\ UNCHANGED lookup_vars
  /\ UNCHANGED loader_vars
  /\ UNCHANGED <<distance, meta>>

\* register_module on the main thread: one store into _modules
RegisterModule(m) ==
  /\ wpc = "idle"
  /\ Len(_modules) < MaxModules
  /\ get_module(_modules, m.name) = <<>>
  /\ _modules' = Append(_modules, m)
  /\ reg_version' = reg_version + 1
  /\ UNCHANGED <<rev, _command_map, _alias_map, _lazy_module_commands,
                 _completion_dict, heap, pc, completion_dict, all_modules, returned,
                 lookup_start, wpc, warg, inval_version>>
  /\ UNCHANGED call_vars
  /\ UNCHANGED lookup_vars
  /\ UNCHANGED loader_vars
  /\ UNCHANGED <<distance, meta>>

\* register_command on the main thread: self._command_map[full_command] = ...
StoreCommand(c) ==
  /\ wpc = "idle"
  /\ Len(_command_map) < MaxCommands
  /\ ~HasCommand(_command_map, FullCommand(c.module, c.name))
  /\ _command_map' = Append(_command_map, CommandEntry(c))
  /\ reg_version' = reg_version + 1
  /\ wpc' = "aliases"
  /\ warg' = c
  /\ UNCHANGED <<rev, _modules, _alias_map, _lazy_module_commands,
                 _completion_dict, heap, pc, completion_dict, all_modules, returned,
                 lookup_start, inval_version>>
  /\ UNCHANGED call_vars
  /\ UNCHANGED lookup_vars
  /\ UNCHANGED loader_vars
  /\ UNCHANGED <<distance, meta>>

\* for alias in aliases: self._alias_map[alias] = full_command
StoreAliases ==
  /\ wpc = "aliases"
  /\ _alias_map' = AliasMapSetAll(_alias_map, warg.aliases,
                                  FullCommand(warg.module, warg.name))
  /\ reg_version' = IF warg.aliases # <<>> THEN reg_version + 1 ELSE reg_version
  /\ wpc' = "notify"
  /\ UNCHANGED <<rev, _modules, _command_map, _lazy_module_commands,
                 _completion_dict, heap, pc, completion_dict, all_modules, returned,
                 lookup_start, warg, inval_version>>
  /\ UNCHANGED call_vars
  /\ UNCHANGED lookup_vars
  /\ UNCHANGED loader_vars
  /\ UNCHANGED <<distance, meta>>

\* self._completer._invalidate_cache()
Notify ==
  /\ wpc = "notify"
  /\ _completion_dict' = InvalidatedCache(_completion_dict)
  /\ inval_version' = reg_version
  /\ heap' = Collect(heap, Live(_completion_dict', completion_dict))
  /\ wpc' = "idle"
  /\ warg' = NoCommand
  /\ UNCHANGED <<rev, _modules, _command_map, _alias_map, _lazy_module_commands,
                 pc, completion_dict, all_modules, returned, lookup_start,
                 reg_version>>
  /\ UNCHANGED call_vars
  /\ UNCHANGED lookup_vars
  /\ UNCHANGED loader_vars
  /\ UNCHANGED <<distance, meta>>

NextConc ==
  \/ \E t \in Readers : Check(t)
  \/ \E t \in Readers : ReturnCached(t)
  \/ \E t \in Readers : Step(t)
  \/ \E t \in Readers : Publish(t)
  \/ \E m \in ConcModuleDefs : RegisterModule(m)
  \/ \E c \in ConcCommandDefs : StoreCommand(c)
  \/ StoreAliases
  \/ Notify

SpecConc == Init /\ [][NextConc]_vars

(* ---------------------------------------------------------------------- *)
(* get_completions and FuzzyMatcher.match as calls                        *)
(* ---------------------------------------------------------------------- *)
\* AutoCompleter(registry): enable_fuzzy defaults to True
_enable_fuzzy == TRUE

\* [p for p in items if p.startswith(word)]
StartingWith(items, word) ==
  SelectIn(items, {n \in 1..Len(items) : startswith(items[n], word)})

\* aliases[command] if command in aliases else command
_resolve_alias(amap, command) ==
  LET S == {i \in 1..Len(amap) : amap[i].alias = command}
  IN IF S = {} THEN command ELSE amap[CHOOSE i \in S : TRUE].full

\* completion_dict.get(key, [])
DictGet(d, key) == IF key \in DOMAIN d THEN d[key] ELSE <<>>

\* words[:-1]
ButLast(words) == SubSeq(words, 1, Len(words) - 1)

\* _get_parameter_completions_for_context of core/completion/auto_completer.py
Pkg_get_parameter_completions_for_context(cmap, amap, words) ==
  IF Len(words) < 2 THEN <<>>
  ELSE DictGet(_build_parameter_completions(cmap, amap),
               _resolve_alias(amap, ButLast(words)))

\* _get_parameter_completions_for_context of auto_completer_enhanced.py
Enh_get_parameter_completions_for_context(amap, context_words, d) ==
  IF context_words = <<>> THEN <<>>
  ELSE StartingWith(DictGet(d, _resolve_alias(amap, context_words)), "-")

\* variant: the parameter tokens are not filtered by the typed token
ParamMatches_Unfiltered(param_completions, word) == param_completions

\* [p for p in param_completions if p.startswith(word)]
ParamMatches(param_completions, word) ==
  StartingWith(param_completions, word)

\* the (prefix, word) of a text that is not a parameter context
Context(text, words) ==
  IF Len(words) = 1
  THEN (IF endswith(text, " ")
        THEN [prefix |-> <<words[1]>>, word |-> ""]
        ELSE [prefix |-> <<>>, word |-> words[1]])
  ELSE IF Len(words) = 2
  THEN [prefix |-> <<words[1]>>, word |-> words[2]]
  ELSE [prefix |-> ButLast(words), word |-> words[Len(words)]]

\* r.score >= 50 in the packaged revision, r.score > 50 in the enhanced one
OverThreshold(rv, r) ==
  IF rv = "packaged" THEN ScoreLe(Score(50), r.score) ELSE ScoreLt(Score(50), r.score)

\* [r.candidate for r in results]
Candidates(results) == List([i \in 1..Len(results) |-> results[i].candidate])

\* for match in sorted(matches): yield Completion(text=match, start_position=-len(word))
Yield(matches, word) ==
  LET s == SortedStr(matches)
  IN List([i \in 1..Len(s) |-> [text |-> s[i], start_position |-> 0 - Len(word)]])

Completions(kind, text, prefix, word, candidates, matches) ==
  [kind |-> kind, text |-> text, prefix |-> prefix, word |-> word,
   candidates |-> candidates, matches |-> matches, yielded |-> Yield(matches, word)]

\* FuzzyMatcher.match(query, candidates) on the completer's matcher
match(query, candidates) ==
  /\ LET m == MatchCall(rev, _fuzzy_matcher, _cache, _cache_size, query, candidates)
     IN /\ matched' = [called |-> TRUE, query |-> query, candidates |-> candidates,
                       results |-> m.results]
        /\ _cache' = m.cache
  /\ UNCHANGED <<_fuzzy_matcher, _cache_size, completions>>
  /\ UNCHANGED index_vars
  /\ UNCHANGED call_vars
  /\ UNCHANGED thread_vars
  /\ UNCHANGED loader_vars
  /\ UNCHANGED <<distance, meta>>

\* the parameter branch of the packaged get_completions: no dictionary is built
PkgParameterCompletions(text, words) ==
  LET word == words[Len(words)]
      param_completions ==
        Pkg_get_parameter_completions_for_context(_command_map, _alias_map, words)
  IN /\ completions' = Completions("param", text, ButLast(words), word, param_completions,
                                   ParamMatches(param_completions, word))
     /\ matched' = NoMatch /\ UNCHANGED _cache
     /\ UNCHANGED <<_completion_dict, heap>>
     /\ UNCHANGED call_vars

\* the parameter branch of the enhanced get_completions, d the dictionary
\* build_completion_dict returned
EnhParameterCompletions(text, words, d) ==
  LET word == words[Len(words)]
      param_completions ==
        Enh_get_parameter_completions_for_context(_alias_map, ButLast(words), d)
  IN /\ completions' = Completions("param", text, ButLast(words), word, param_completions,
                                   ParamMatches(SortedStr(param_completions), word))
     /\ matched' = NoMatch /\ UNCHANGED _cache

\* the command and module branch of get_completions
WordCompletions(text, words, d) ==
  LET ctx == Context(text, words)
      candidates == DictGet(d, ctx.prefix)
      m == MatchCall(rev, _fuzzy_matcher, _cache, _cache_size, ctx.word, candidates)
  IN IF _enable_fuzzy /\ ctx.word # ""
     THEN /\ matched' = [called |-> TRUE, query |-> ctx.word, candidates |-> candidates,
                         results |-> m.results]
          /\ _cache' = m.cache
          /\ completions' =
               Completions("words", text, ctx.prefix, ctx.word, candidates,
                           Candidates(SelectIn(m.results,
                             {n \in 1..Len(m.results) : OverThreshold(rev, m.results[n])})))
     ELSE /\ completions' =
               Completions("words", text, ctx.prefix, ctx.word, candidates,
                           StartingWith(candidates, ctx.word))
          /\ matched' = NoMatch /\ UNCHANGED _cache

\* AutoCompleter.get_completions(document, complete_event), the generator
\* run to its end; text is document.text_before_cursor
get_completions(text) ==
  /\ LET words == split(text)
     IN IF words = <<>>
        THEN /\ completions' = Completions("empty", text, <<>>, "", <<>>, <<>>)
             /\ matched' = NoMatch /\ UNCHANGED _cache
             /\ UNCHANGED <<_completion_dict, heap>>
             /\ UNCHANGED call_vars
        ELSE IF rev = "packaged" /\ startswith(words[Len(words)], "-")
        THEN PkgParameterCompletions(text, words)
        ELSE /\ BuildCall
             /\ IF result'.kind = "raised"
                THEN /\ completions' = Completions("raised", text, <<>>, "", <<>>, <<>>)
                     /\ matched' = NoMatch /\ UNCHANGED _cache
                ELSE IF startswith(words[Len(words)], "-")
                THEN EnhParameterCompletions(text, words, heap'[result'.ref].d)
                ELSE WordCompletions(text, words, heap'[result'.ref].d)
  /\ UNCHANGED <<rev, _modules, _command_map, _alias_map, _lazy_module_commands,
                 _fuzzy_matcher, _cache_size>>
  /\ UNCHANGED thread_vars
  /\ UNCHANGED loader_vars
  /\ UNCHANGED <<distance, meta>>

\* the registrations and the texts of the lookups
LookupModuleDefs == {m \in ModuleDefs : m.name = "database"}

FieldPort == <<"p", "o", "r", "t">>

FieldPassword == <<"p", "a", "s", "s", "w", "o", "r", "d">>

LookupCommandDefs ==
  {c \in CommandDefs : c.name = "connect"}
    \cup { [module |-> "ssh", name |-> "connect",
            handler |-> TypedOriginal(<<FieldHost, FieldPort, FieldPassword>>),
            aliases |-> <<>>] }

Texts ==
  { "", "s", "database", "database ", "database\t", "database c", "db conn x",
    "-", "db conn -", "ssh connect -p" }

NextLookup ==
  \/ \E m \in LookupModuleDefs : register_module(m)
  \/ \E c \in LookupCommandDefs : register_command(c)
  \/ \E text \in Texts : get_completions(text)

SpecLookup == Init /\ [][NextLookup]_vars

\* the matcher on its own: every configuration of the constructor
MatcherConfigs ==
  [enable_prefix : BOOLEAN, enable_subsequence : BOOLEAN, enable_levenshtein : BOOLEAN,
   max_levenshtein_distance : {1, 3, 7}]

Queries == {"", "env", "ENV", "abc", "connect"}

CandidateLists ==
  { <<>>,
    <<"eval", "Env", "ssh env", "environment">>,
    <<"abd", "axd", "xyz", "wxyz", "uvwxyz", "tuvwxyz">>,
    <<"reconnect", "connect", "Connect", "select">> }

InitFuzzy ==
  /\ rev \in Revisions
  /\ _fuzzy_matcher \in (IF rev = "packaged" THEN {DefaultMatcher} ELSE MatcherConfigs)
  /\ _cache = <<>>
  /\ _cache_size = MaxCache
  /\ matched = NoMatch
  /\ completions = NoCompletions
  /\ InitLoader
  /\ distance = NoDistance
  /\ meta = NoMeta
  /\ InitIndex

NextFuzzy == \E query \in Queries, candidates \in CandidateLists : match(query, candidates)

SpecFuzzy == InitFuzzy /\ [][NextFuzzy]_vars

\* FuzzyMatcher(cache_size) of the packaged revision, for every size up to
\* the bound, and calls that come back to keys used before
CacheQueries == {"", "e", "en", "env", "x"}

CacheCandidateLists == {<<"env", "eval">>, <<"exit">>}

InitCache ==
  /\ rev = "packaged"
  /\ _fuzzy_matcher = DefaultMatcher
  /\ _cache = <<>>
  /\ _cache_size \in 1..MaxCacheSize
  /\ matched = NoMatch
  /\ completions = NoCompletions
  /\ InitLoader
  /\ distance = NoDistance
  /\ meta = NoMeta
  /\ InitIndex

NextCache == \E query \in CacheQueries, candidates \in CacheCandidateLists : match(query, candidates)

SpecCache == InitCache /\ [][NextCache]_vars

(* ---------------------------------------------------------------------- *)
(* _get_completion_meta and what it reads from the registry.  A command   *)
(* string is its sequence of words; a value that may raise is the record  *)
(* [raised, value].  The literals of the source are written in English:   *)
(* "parameter", "module", "command", "no description".                    *)
(* ---------------------------------------------------------------------- *)
Gives(value) == [raised |-> FALSE, value |-> value]

Raises == [raised |-> TRUE, value |-> ""]

\* a in b, for strings
IsSubstring(a, b) ==
  \/ a = ""
  \/ \E p \in 1..(Len(b) - Len(a) + 1) : SubSeq(b, p, p + Len(a) - 1) = a

\* short_name in module.aliases: a substring test for a str, membership for a
\* list, TypeError for None
InAliases(short_name, a) ==
  IF a.kind = "none" THEN Raises
  ELSE IF a.kind = "str" THEN Gives(IsSubstring(short_name, a.items[1]))
  ELSE Gives(short_name \in Range(a.items))

\* the loop over self._modules.values() of _resolve_module_name, from module i
RECURSIVE AliasScan(_, _, _)
AliasScan(mods, short_name, i) ==
  IF i > Len(mods) THEN Gives(<<>>)
  ELSE LET t == InAliases(short_name, mods[i].aliases)
       IN IF t.raised THEN Raises
          ELSE IF t.value THEN Gives(<<mods[i].name>>)
          ELSE AliasScan(mods, short_name, i + 1)

\* CommandRegistry._resolve_module_name: the exact name, then the aliases,
\* then the first module name that starts with short_name; <<>> is None
_resolve_module_name(mods, short_name) ==
  IF get_module(mods, short_name) # <<>> THEN Gives(<<short_name>>)
  ELSE LET a == AliasScan(mods, short_name, 1)
           S == {i \in 1..Len(mods) : startswith(mods[i].name, short_name)}
       IN IF a.raised \/ a.value # <<>> THEN a
          ELSE IF S = {} THEN Gives(<<>>)
          ELSE Gives(<<mods[CHOOSE i \in S : \A j \in S : i <= j].name>>)

\* self._command_map.get(full): <<>> is None
CommandInfo(cmap, full) ==
  LET S == {i \in 1..Len(cmap) : cmap[i].full = full}
  IN IF S = {} THEN <<>> ELSE <<cmap[CHOOSE i \in S : TRUE]>>

\* CommandRegistry.get_command_info(command_str)
get_command_info(mods, cmap, amap, command_str) ==
  LET resolved == _resolve_alias(amap, command_str)
      full_module == IF Len(resolved) >= 2 THEN _resolve_module_name(mods, resolved[1])
                     ELSE Gives(<<>>)
      full_cmd == IF full_module.value # <<>> THEN <<full_module.value[1], resolved[2]>>
                  ELSE <<>>
  IN IF full_module.raised THEN Raises
     ELSE IF full_cmd # <<>> /\ CommandInfo(cmap, full_cmd) # <<>>
     THEN Gives(CommandInfo(cmap, full_cmd))
     ELSE Gives(CommandInfo(cmap, resolved))

\* module.description of the module classes
Description(module_name) ==
  IF module_name = "core" THEN "core commands"
  ELSE IF module_name = "database" THEN "database operations"
  ELSE ""

\* the __doc__ a handler's description is read from (the wrapped function's
\* for a typed command); "" stands for None
Doc(handler) ==
  IF handler.kind = "plain" THEN ""
  ELSE "\n    Run the command.\n\n    Args: none\n    "

\* str.strip()
RECURSIVE strip(_)
strip(s) ==
  IF s = "" THEN s
  ELSE IF CharAt(s, 1) \in Whitespace THEN strip(SubSeq(s, 2, Len(s)))
  ELSE IF CharAt(s, Len(s)) \in Whitespace THEN strip(SubSeq(s, 1, Len(s) - 1))
  ELSE s

\* s.split("\n")[0]
FirstLine(s) ==
  LET S == {p \in 1..Len(s) : CharAt(s, p) = "\n"}
  IN IF S = {} THEN s ELSE SubSeq(s, 1, (CHOOSE p \in S : \A q \in S : p <= q) - 1)

\* AutoCompleter._extract_command_description
_extract_command_description(handler) ==
  IF Doc(handler) # "" THEN FirstLine(strip(Doc(handler))) ELSE "no description"

\* field_info.description of the parameter models; "" stands for None
FieldDescription(f) == IF f = FieldHost THEN "host name" ELSE ""

\* param[2:].replace("-", "_")
ParamName(param) ==
  Concat([i \in 1..(Len(param) - 2) |->
            IF CharAt(param, i + 2) = "-" THEN "_" ELSE CharAt(param, i + 2)])

\* AutoCompleter._get_parameter_description(param, prefix)
_get_parameter_description(mods, cmap, amap, param, prefix) ==
  IF Len(prefix) < 2 THEN Gives("parameter")
  ELSE LET cmd_info == get_command_info(mods, cmap, amap, _resolve_alias(amap, prefix))
       IN IF cmd_info.raised THEN Raises
          ELSE IF cmd_info.value = <<>> THEN Gives("parameter")
          ELSE LET handler == cmd_info.value[1].handler
                   S == {i \in 1..Len(handler.fields) :
                           Concat(handler.fields[i]) = ParamName(param)}
               IN IF handler.kind = "typed_original" /\ S # {}
                     /\ FieldDescription(handler.fields[CHOOSE i \in S : TRUE]) # ""
                  THEN Gives(FieldDescription(handler.fields[CHOOSE i \in S : TRUE]))
                  ELSE Gives("parameter")

\* the value of the last return of _get_completion_meta
MetaDefault == ""

\* AutoCompleter._get_completion_meta(match, prefix), the same in both
\* revisions; prefix is the sequence of its words, <<>> for ""
CompletionMeta(mods, cmap, amap, match_, prefix) ==
  IF startswith(match_, "--")
  THEN _get_parameter_description(mods, cmap, amap, match_, prefix)
  ELSE IF prefix = <<>>
  THEN LET direct == get_module(mods, match_)
           byAlias == _resolve_module_alias(mods, match_)
           module == IF direct # <<>> THEN direct
                     ELSE IF byAlias # <<>> THEN get_module(mods, byAlias[1])
                     ELSE <<>>
           cmd_info == get_command_info(mods, cmap, amap, <<match_>>)
       IN IF module # <<>>
          THEN Gives(IF Description(module[1].name) # ""
                         THEN Description(module[1].name) ELSE "module")
          ELSE IF cmd_info.raised THEN Raises
          ELSE IF cmd_info.value # <<>>
          THEN Gives(_extract_command_description(cmd_info.value[1].handler))
          ELSE Gives("command")
  ELSE LET cmd_info == get_command_info(mods, cmap, amap,
                         _resolve_alias(amap, Append(prefix, match_)))
       IN IF cmd_info.raised THEN Raises
          ELSE IF cmd_info.value # <<>>
          THEN Gives(_extract_command_description(cmd_info.value[1].handler))
          ELSE Gives(MetaDefault)

\* the call as a step of its own
_get_completion_meta(match_, prefix) ==
  /\ LET r == CompletionMeta(_modules, _command_map, _alias_map, match_, prefix)
     IN meta' = [called |-> TRUE, match |-> match_, prefix |-> prefix,
                 outcome |-> IF r.raised THEN "raised" ELSE "returned",
                 value |-> r.value]
  /\ UNCHANGED index_vars
  /\ UNCHANGED call_vars
  /\ UNCHANGED thread_vars
  /\ UNCHANGED lookup_vars
  /\ UNCHANGED loader_vars
  /\ UNCHANGED distance

MetaModuleDefs == {m \in ModuleDefs : m.name \in {"core", "database"}}

MetaCommandDefs ==
  {c \in CommandDefs : c.name \in {"status", "connect"}}

MetaMatches == {"connect", "conn", "database", "db", "status", "list", "--host", "--max-rows", "-h"}

MetaPrefixes ==
  {<<>>, <<"database">>, <<"db">>, <<"files">>, <<"database", "connect">>, <<"db", "conn">>}

NextMeta ==
  \/ \E m \in MetaModuleDefs : register_module(m)
  \/ \E c \in MetaCommandDefs : register_command(c)
  \/ \E match_ \in MetaMatches, prefix \in MetaPrefixes : _get_completion_meta(match_, prefix)

SpecMeta == Init /\ [][NextMeta]_vars

(* ---------------------------------------------------------------------- *)
(* _levenshtein_distance as a call of its own                             *)
(* ---------------------------------------------------------------------- *)
Alphabet == {"a", "b", "A"}

\* the strings over Alphabet of at most n characters
RECURSIVE StringsOf(_)
StringsOf(n) ==
  IF n = 0 THEN {""}
  ELSE StringsOf(n - 1) \cup {s \o c : s \in StringsOf(n - 1), c \in Alphabet}

\* the arguments of the call, drawn before it is made
InitDistance ==
  /\ rev \in Revisions
  /\ InitIndex
  /\ _fuzzy_matcher = DefaultMatcher
  /\ _cache = <<>>
  /\ _cache_size = MaxCache
  /\ matched = NoMatch
  /\ completions = NoCompletions
  /\ InitLoader
  /\ meta = NoMeta
  /\ \E s1 \in StringsOf(MaxLen), s2 \in StringsOf(MaxLen) :
       distance = [called |-> FALSE, s1 |-> s1, s2 |-> s2, value |-> 0]

\* FuzzyMatcher._levenshtein_distance(s1, s2) of the attached revision
_levenshtein_distance(s1, s2) ==
  /\ ~distance.called
  /\ distance' = [called |-> TRUE, s1 |-> s1, s2 |-> s2,
                  value |-> IF rev = "packaged" THEN Pkg_levenshtein_distance(s1, s2)
                            ELSE Impl_levenshtein_distance(s1, s2)]
  /\ UNCHANGED index_vars
  /\ UNCHANGED call_vars
  /\ UNCHANGED thread_vars
  /\ UNCHANGED lookup_vars
  /\ UNCHANGED loader_vars
  /\ UNCHANGED meta

NextDistance == _levenshtein_distance(distance.s1, distance.s2)

SpecDistance == InitDistance /\ [][NextDistance]_vars

(* ---------------------------------------------------------------------- *)
(* Module loading: LazyModuleTracker, ModuleRegister and                  *)
(* UnifiedModuleLoader of core/loaders, on the registry's _modules.       *)
(* A module instance is the record of its class plus the number id of     *)
(* the instance; a dict keyed by names is a function.                     *)
(* ---------------------------------------------------------------------- *)
\* module classes: fails names the member that raises ("construct" the
\* constructor, "name" the name property, "initialize" the initialize hook)
ModuleClasses ==
  { [cls |-> "MockModule", name |-> "mock", aliases |-> AliasList(<<>>),
     fails |-> "none"],
    [cls |-> "DatabaseModule", name |-> "database", aliases |-> AliasStr("db"),
     fails |-> "none"],
    [cls |-> "MockModuleWithFailedInit", name |-> "mock_failed_init",
     aliases |-> AliasList(<<>>), fails |-> "initialize"],
    [cls |-> "BrokenModule", name |-> "broken", aliases |-> AliasList(<<>>),
     fails |-> "name"] }

ModuleNames == {c.name : c \in ModuleClasses}

\* module_cls(): the instance number id of the class
Instance(module_cls, id) ==
  [name |-> module_cls.name, aliases |-> module_cls.aliases, id |-> id,
   cls |-> module_cls.cls, fails |-> module_cls.fails]

\* d[key] = value, for a dict held as a function
Store(d, key, value) ==
  [k \in (DOMAIN d) \cup {key} |-> IF k = key THEN value ELSE d[k]]

\* del d[key]
Delete(d, key) == [k \in (DOMAIN d) \ {key} |-> d[k]]

\* del self._registry._modules[module.name]
DelModule(mods, name) == SelectIn(mods, {n \in 1..Len(mods) : mods[n].name # name})

\* LazyModuleTracker.is_loaded
is_loaded(loaded, module_name) == module_name \in loaded

\* ModuleRegister.is_registered
is_registered(mods, module_name) == get_module(mods, module_name) # <<>>

\* the methods class ModuleRegister defines
ModuleRegisterMethods == {"__init__", "is_registered", "register"}

\* variant: the except clause re-raises without the cleanup
ModuleRegister_register_NoCleanup(mods, module) ==
  IF module.fails = "name" THEN [modules |-> mods, raised |-> TRUE]
  ELSE IF is_registered(mods, module.name) THEN [modules |-> mods, raised |-> TRUE]
  ELSE IF module.fails = "initialize"
  THEN [modules |-> Append(mods, module), raised |-> TRUE]
  ELSE [modules |-> Append(mods, module), raised |-> FALSE]

\* ModuleRegister.register(module): the registry's _modules afterwards and
\* whether the call raised.  module.name raising fails register_module and
\* again the cleanup's test; a known name fails register_module; a failing
\* initialize comes after the module was stored; the cleanup deletes whatever
\* _modules holds under the name
ModuleRegister_register(mods, module) ==
  IF module.fails = "name" THEN [modules |-> mods, raised |-> TRUE]
  ELSE IF is_registered(mods, module.name)
  THEN [modules |-> DelModule(mods, module.name), raised |-> TRUE]
  ELSE IF module.fails = "initialize"
  THEN [modules |-> DelModule(Append(mods, module), module.name), raised |-> TRUE]
  ELSE [modules |-> Append(mods, module), raised |-> FALSE]

\* LazyModuleTracker.add_lazy_module: stores the class and caches the alias of
\* a temporary instance; a list alias is unhashable and the TypeError is
\* swallowed, like a failing constructor
add_lazy_module(module_name, module_cls) ==
  /\ _lazy_modules' = Store(_lazy_modules, module_name, module_cls)
  /\ _alias_to_module' =
       IF module_cls.fails # "construct" /\ Truthy(module_cls.aliases)
            /\ module_cls.aliases.kind = "str"
       THEN Store(_alias_to_module, module_cls.aliases.items[1], module_name)
       ELSE _alias_to_module
  /\ loader_call' = [NoLoaderCall EXCEPT !.op = "add_lazy_module",
                                         !.name = module_name,
                                         !.outcome = "returned"]
  /\ UNCHANGED <<_loaded_modules, instances, loaded_instance>>
  /\ UNCHANGED index_vars
  /\ UNCHANGED call_vars
  /\ UNCHANGED thread_vars
  /\ UNCHANGED lookup_vars
  /\ UNCHANGED <<distance, meta>>

\* ModuleRegister.register(module) on a fresh instance of module_cls
register(module_cls) ==
  /\ instances < MaxInstances
  /\ module_cls.fails # "construct"
  /\ LET module == Instance(module_cls, instances + 1)
         r == ModuleRegister_register(_modules, module)
     IN /\ _modules' = r.modules
        /\ instances' = instances + 1
        /\ loader_call' =
             [op |-> "register", name |-> module_cls.name,
              outcome |-> IF r.raised THEN "raised" ELSE "returned",
              module |-> module.id, registering |-> TRUE, callbacks |-> 0,
              was_loaded |-> is_loaded(_loaded_modules, module_cls.name),
              was_lazy |-> module_cls.name \in DOMAIN _lazy_modules,
              was_registered |-> /\ module_cls.fails # "name"
                                 /\ is_registered(_modules, module_cls.name),
              succeeded |-> module_cls.name \in DOMAIN loaded_instance]
  /\ UNCHANGED <<_lazy_modules, _loaded_modules, _alias_to_module, loaded_instance>>
  /\ UNCHANGED <<rev, _command_map, _alias_map, _lazy_module_commands,
                 _completion_dict, heap>>
  /\ UNCHANGED call_vars
  /\ UNCHANGED thread_vars
  /\ UNCHANGED lookup_vars
  /\ UNCHANGED <<distance, meta>>

\* the callbacks ModuleLifecycleManager hands to the loader:
\* register_commands_callback and the completer's refresh
_post_load_callbacks == <<"register_commands_callback", "refresh">>

\* what a load call leaves behind
LoadResult(outcome, module, mods, lazy, loaded, created, registering, callbacks) ==
  [outcome |-> outcome, module |-> module, modules |-> mods, lazy |-> lazy,
   loaded |-> loaded, instances |-> created, registering |-> registering,
   callbacks |-> callbacks]

\* UnifiedModuleLoader.load(module_name) with a ModuleRegister as the module
\* register; failing is the callback that raises (0: none does).  A loaded
\* name asks the register for get_module, which class ModuleRegister does not
\* define: AttributeError, outside the try.  A name the tracker does not hold
\* is imported as ptk_repl.modules.<name>: the import fails, or the package
\* has no <Name>Module attribute (the classes live in its module.py).
Load(module_name, failing) ==
  IF is_loaded(_loaded_modules, module_name)
  THEN IF "get_module" \in ModuleRegisterMethods
       THEN LoadResult(IF is_registered(_modules, module_name) THEN "module" ELSE "None",
                       IF is_registered(_modules, module_name)
                       THEN get_module(_modules, module_name)[1].id ELSE 0,
                       _modules, _lazy_modules, _loaded_modules, instances, FALSE, 0)
       ELSE LoadResult("raised", 0, _modules, _lazy_modules, _loaded_modules,
                       instances, FALSE, 0)
  ELSE IF module_name \notin DOMAIN _lazy_modules
  THEN LoadResult("None", 0, _modules, _lazy_modules, _loaded_modules, instances,
                  FALSE, 0)
  ELSE IF _lazy_modules[module_name].fails = "construct"
  THEN LoadResult("None", 0, _modules, _lazy_modules, _loaded_modules, instances,
                  FALSE, 0)
  ELSE LET module == Instance(_lazy_modules[module_name], instances + 1)
           r == ModuleRegister_register(_modules, module)
       IN IF r.raised
          THEN LoadResult("None", 0, r.modules, _lazy_modules, _loaded_modules,
                          instances + 1, TRUE, 0)
          ELSE LoadResult(IF failing = 0 THEN "module" ELSE "None",
                          IF failing = 0 THEN module.id ELSE 0,
                          r.modules, Delete(_lazy_modules, module_name),
                          _loaded_modules \cup {module_name}, instances + 1, TRUE,
                          IF failing = 0 THEN Len(_post_load_callbacks) ELSE failing)

\* the state a load call leaves, and the record of the call
Loaded(op, module_name, r) ==
  /\ _modules' = r.modules
  /\ _lazy_modules' = r.lazy
  /\ _loaded_modules' = r.loaded
  /\ instances' = r.instances
  /\ loaded_instance' =
       IF r.outcome = "module" /\ module_name \notin DOMAIN loaded_instance
       THEN Store(loaded_instance, module_name, r.module)
       ELSE loaded_instance
  /\ loader_call' =
       [op |-> op, name |-> module_name,
        outcome |-> IF op = "load" \/ r.outcome = "raised" THEN r.outcome
                    ELSE "returned",
        module |-> IF op = "load" THEN r.module ELSE 0,
        registering |-> r.registering, callbacks |-> r.callbacks,
        was_loaded |-> is_loaded(_loaded_modules, module_name),
        was_lazy |-> module_name \in DOMAIN _lazy_modules,
        was_registered |-> is_registered(_modules, module_name),
        succeeded |-> module_name \in DOMAIN loaded_instance]
  /\ UNCHANGED _alias_to_module
  /\ UNCHANGED <<rev, _command_map, _alias_map, _lazy_module_commands,
                 _completion_dict, heap>>
  /\ UNCHANGED call_vars
  /\ UNCHANGED thread_vars
  /\ UNCHANGED lookup_vars
  /\ UNCHANGED <<distance, meta>>

\* UnifiedModuleLoader.load(module_name)
load(module_name) ==
  /\ is_loaded(_loaded_modules, module_name) \/ instances < MaxInstances
  /\ \E failing \in 0..Len(_post_load_callbacks) :
       Loaded("load", module_name, Load(module_name, failing))

\* UnifiedModuleLoader.ensure_module_loaded(module_name):
\* if not self.is_loaded(module_name): self.load(module_name)
ensure_module_loaded(module_name) ==
  /\ is_loaded(_loaded_modules, module_name) \/ instances < MaxInstances
  /\ IF is_loaded(_loaded_modules, module_name)
     THEN Loaded("ensure_module_loaded", module_name,
                 LoadResult("returned", 0, _modules, _lazy_modules, _loaded_modules,
                            instances, FALSE, 0))
     ELSE \E failing \in 0..Len(_post_load_callbacks) :
            Loaded("ensure_module_loaded", module_name, Load(module_name, failing))

\* two commands that ask for the same alias
AliasCommandDefs ==
  { [module |-> "database", name |-> "connect", handler |-> PlainHandler,
     aliases |-> << <<"conn">> >>],
    [module |-> "ssh", name |-> "connect", handler |-> PlainHandler,
     aliases |-> << <<"conn">> >>] }

NextLoader ==
  \/ \E module_cls \in ModuleClasses : add_lazy_module(module_cls.name, module_cls)
  \/ \E module_cls \in ModuleClasses : register(module_cls)
  \/ \E module_name \in ModuleNames : load(module_name)
  \/ \E module_name \in ModuleNames : ensure_module_loaded(module_name)
  \/ \E c \in AliasCommandDefs : register_command(c)

\* the loaders belong to the packaged revision
InitModules == Init /\ rev = "packaged"

SpecLoader == InitModules /\ [][NextLoader]_vars

(* ---------------------------------------------------------------------- *)
(* Properties of the index (specification Spec)                           *)
(* ---------------------------------------------------------------------- *)
\* the dictionary the latest build_completion_dict call returned
ResultDict == heap[result.ref].d

\* what a rebuild from scratch over the current registry state produces
Current ==
  Rebuild(rev, _modules, _command_map, _alias_map, _lazy_module_commands)

Returned == result.kind = "dict"

\* C1: after one or more invalidations, the next build_completion_dict
\* constructs a new dictionary from the current registry state and does not
\* return the one cached before; two invalidations give what one gives.
C1_RebuildAfterInvalidate ==
  (Returned /\ result.invalidations >= 1)
    => (result.fresh /\ ResultDict = Current.d)

C1_Witness ==
  /\ Returned
  /\ result.invalidations >= 2
  /\ result.dropped
  /\ result.fresh
  /\ Len(_command_map) >= 1

\* C4: every dictionary build_completion_dict returns equals a rebuild from
\* scratch over the registry's current modules, commands, aliases and lazy
\* declarations.
C4_ResultIsCurrent == Returned => ResultDict = Current.d

NoInstance(module_name) == get_module(_modules, module_name) = <<>>

\* C5: a lazily declared module without a live instance is in the top-level
\* list and its key maps to the sorted union of its declared commands.
C5_LazyModuleListed ==
  Returned =>
    \A i \in 1..Len(_lazy_module_commands) :
      LET e == _lazy_module_commands[i]
      IN NoInstance(e.name) =>
           /\ e.name \in Range(ResultDict[<<>>])
           /\ <<e.name>> \in DOMAIN ResultDict
           /\ ResultDict[<<e.name>>] = e.commands

NonCoreModules == {_modules[i].name : i \in {j \in 1..Len(_modules) : _modules[j].name # "core"}}

TopLevelExpected ==
  Range(list_module_commands(_command_map, "core"))
  \cup NonCoreModules
  \cup ShortAliasWords(_modules, NonCoreModules)
  \cup {_lazy_module_commands[i].name : i \in 1..Len(_lazy_module_commands)}

\* C6: the top-level list of a newly built dictionary is the sorted,
\* duplicate-free union of the core commands, the non-core module names and
\* short aliases, and the lazily declared module names.
C6_TopLevelUnion ==
  (Returned /\ result.fresh) => ResultDict[<<>>] = SortedSet(TopLevelExpected)

Count(s, w) == Cardinality({i \in 1..Len(s) : s[i] = w})

\* the dictionary as the module and lazy-module steps leave it
AfterLazyStep ==
  RunPhase(rev, "lazy",
    RunPhase(rev, "modules",
      RunPhase(rev, "top",
        RunPhase(rev, "core", NewBuild,
                 _modules, _command_map, _alias_map, _lazy_module_commands),
        _modules, _command_map, _alias_map, _lazy_module_commands),
      _modules, _command_map, _alias_map, _lazy_module_commands),
    _modules, _command_map, _alias_map, _lazy_module_commands)

\* C7: for every alias "<module> <command>" the key <module> exists in a
\* newly built dictionary, lists <command> exactly once, and keeps every
\* entry the module and lazy-module steps gave it.
C7_AliasMerged ==
  (Returned /\ result.fresh) =>
    \A i \in 1..Len(_alias_map) :
      LET alias == _alias_map[i].alias
          key == <<alias[1]>>
      IN Len(alias) = 2 =>
           /\ key \in DOMAIN ResultDict
           /\ Count(ResultDict[key], alias[2]) = 1
           /\ (key \in DOMAIN AfterLazyStep.d =>
                 Range(AfterLazyStep.d[key]) \subseteq Range(ResultDict[key]))

\* the handler carries a parameter model, on the wrapper or on the function
ExposesModel(handler) == handler.kind \in {"typed_wrapper", "typed_original"}

FieldTokens(fields) ==
  {LongOpt(fields[i]) : i \in 1..Len(fields)} \cup {ShortOpt(fields[i]) : i \in 1..Len(fields)}

\* C8: every registered command whose handler exposes a typed-parameter
\* model has an entry under its full path, and under every alias of that
\* path, holding the long and short token of each declared field.
C8_ParameterEntries ==
  (Returned /\ result.fresh) =>
    \A i \in 1..Len(_command_map) :
      LET c == _command_map[i]
          keys == {c.full} \cup {_alias_map[j].alias :
                                   j \in {k \in 1..Len(_alias_map) : _alias_map[k].full = c.full}}
      IN ExposesModel(c.handler) =>
           \A key \in keys :
             /\ key \in DOMAIN ResultDict
             /\ FieldTokens(c.handler.fields) \subseteq Range(ResultDict[key])

\* C9: build_completion_dict never raises.
C9_BuildNeverRaises == result.kind # "raised"

\* the keys of the cached dictionary other than ""
CachedKeys ==
  IF _completion_dict = 0 THEN {} ELSE (DOMAIN heap[_completion_dict].d) \ {<<>>}

IsModuleName(key) == Len(key) = 1 /\ get_module(_modules, key[1]) # <<>>

IsShortAlias(key) ==
  /\ Len(key) = 1
  /\ \E i \in 1..Len(_modules) : AliasEquals(_modules[i].aliases, key[1])

IsAliasSegment(key) ==
  /\ Len(key) = 1
  /\ \E i \in 1..Len(_alias_map) :
       Len(_alias_map[i].alias) >= 2 /\ _alias_map[i].alias[1] = key[1]

IsLazyName(key) ==
  /\ Len(key) = 1
  /\ \E i \in 1..Len(_lazy_module_commands) : _lazy_module_commands[i].name = key[1]

IsParameterKey(key) ==
  \E i \in 1..Len(_command_map) :
    /\ HasTypedModel(_command_map[i].handler)
    /\ \/ key = _command_map[i].full
       \/ \E j \in 1..Len(_alias_map) :
            _alias_map[j].alias = key /\ _alias_map[j].full = _command_map[i].full

\* C10 as stated: every key other than "" is a registered module's name, a
\* module's short alias, or the module segment of a registered command alias.
C10_KeysOriginal ==
  \A key \in CachedKeys : IsModuleName(key) \/ IsShortAlias(key) \/ IsAliasSegment(key)

\* C10 amended: every key other than "" is a registered module's name, a
\* module's short alias, the module segment of a registered command alias,
\* the name of a lazily declared module, or the full path (or a registered
\* alias of the full path) of a registered command with a parameter model.
C10_KeysAmended ==
  \A key \in CachedKeys :
    \/ IsModuleName(key)
    \/ IsShortAlias(key)
    \/ IsAliasSegment(key)
    \/ IsLazyName(key)
    \/ IsParameterKey(key)

C10_Witness ==
  /\ \E key \in CachedKeys : IsLazyName(key) /\ ~IsModuleName(key)
  /\ \E key \in CachedKeys : Len(key) = 2 /\ IsParameterKey(key)
  /\ \E key \in CachedKeys : IsAliasSegment(key)

(* ---------------------------------------------------------------------- *)
(* Properties of the threads (specification SpecConc)                     *)
(* ---------------------------------------------------------------------- *)
\* C2: a call that starts after an invalidation has completed never returns
\* a dictionary whose registry reads are older than that invalidation.
C2_NoStaleDictionary == returned.kind = "dict" => returned.current

Building(t) == pc[t] \in Range(Phases) \cup {"publish"}

C3_Whole ==
  /\ returned.kind = "dict" => returned.complete
  /\ _completion_dict # 0 => heap[_completion_dict].done = NumPhases(rev)
  /\ \A t \in Readers :
       Building(t) =>
         /\ completion_dict[t] # _completion_dict
         /\ ~heap[completion_dict[t]].published
         /\ \A u \in Readers \ {t} : completion_dict[u] # completion_dict[t]

C3_Unmodified ==
  \A ref \in (DOMAIN heap) \cap (DOMAIN heap') :
    heap[ref].published => heap'[ref].d = heap[ref].d

\* C3: the dictionary is built in a local object no one else refers to and
\* published by one assignment; every dictionary that is cached or returned
\* has run all steps of its rebuild, and a published dictionary never changes.
C3_PublishedWhole == [](C3_Whole) /\ [][C3_Unmodified]_vars

C3_Witness ==
  /\ returned.kind = "dict"
  /\ _completion_dict # 0
  /\ inval_version >= 1
  /\ \E t \in Readers : Building(t) /\ heap[completion_dict[t]].done >= 2

(* ---------------------------------------------------------------------- *)
(* Claims about get_completions (SpecLookup)                              *)
(* ---------------------------------------------------------------------- *)
\* text ends with a character str.split() treats as a separator
EndsWithWhitespace(text) == text # "" /\ CharAt(text, Len(text)) \in Whitespace

\* C11: for a text whose last token does not start with '-', the prefix and
\* the partial word are: one token followed by trailing whitespace gives
\* (token, ""); one token without trailing whitespace gives ("", token); two
\* tokens give (tokens[0], tokens[1]); more tokens give (all but the last,
\* the last); the candidates are those stored under that prefix.
C11_ContextSplit ==
  completions.kind = "words" =>
    LET words == split(completions.text)
        n == Len(words)
    IN /\ (n = 1 /\ EndsWithWhitespace(completions.text)) =>
            completions.prefix = <<words[1]>> /\ completions.word = ""
       /\ (n = 1 /\ ~EndsWithWhitespace(completions.text)) =>
            completions.prefix = <<>> /\ completions.word = words[1]
       /\ n = 2 => completions.prefix = <<words[1]>> /\ completions.word = words[2]
       /\ n > 2 => completions.prefix = ButLast(words) /\ completions.word = words[n]

\* a step of get_completions
LookupStep ==
  /\ completions'.text \in Texts
  /\ UNCHANGED <<_modules, _command_map, _alias_map>>
  /\ get_completions(completions'.text)

\* the parameter tokens of the command path, from the registry as it is
ParameterEntry(path) ==
  DictGet(_build_parameter_completions(_command_map, _alias_map), path)

\* the last token of the text starts with '-'
ParameterContext(text) ==
  split(text) # <<>> /\ startswith(split(text)[Len(split(text))], "-")

C12_Suggestions ==
  LET words == split(completions'.text)
      yielded == completions'.yielded
  IN ParameterContext(completions'.text) =>
       /\ \A i \in 1..Len(yielded) :
            /\ startswith(yielded[i].text, "-")
            /\ startswith(yielded[i].text, words[Len(words)])
       /\ {yielded[i].text : i \in 1..Len(yielded)} \subseteq
            Range(ParameterEntry(_resolve_alias(_alias_map, ButLast(words))))
       /\ Len(words) = 1 => yielded = <<>>

\* C12: when the last token starts with '-', every suggestion starts with
\* '-', has the last token as a prefix and belongs to the parameter entry of
\* the path of the preceding tokens after one alias resolution; nothing is
\* suggested when there are no preceding tokens.
C12_ParameterContext ==
  [][(ParameterContext(completions'.text) /\ LookupStep) => C12_Suggestions]_vars

C12_Witness ==
  /\ completions.text = "db conn -"
  /\ completions.kind = "param"
  /\ Len(completions.yielded) >= 2

\* the texts of the suggestions in the order they are yielded
YieldedTexts == Candidates(
  [i \in 1..Len(completions.yielded) |-> [candidate |-> completions.yielded[i].text]])

\* C13: for a non-empty partial word the suggestions are in ranked order,
\* the order in which FuzzyMatcher.match returned them (descending score,
\* ties in the candidates' order).
C13_RankedOrder ==
  (completions.kind = "words" /\ completions.word # "") =>
    YieldedTexts = completions.matches

\* C14: no suggestion text occurs twice in the result of one get_completions
\* call.
C14_NoDuplicates ==
  \A i, j \in 1..Len(completions.yielded) :
    completions.yielded[i].text = completions.yielded[j].text => i = j

(* ---------------------------------------------------------------------- *)
(* Claims about FuzzyMatcher.match (SpecFuzzy)                            *)
(* ---------------------------------------------------------------------- *)
\* the matcher of fuzzy_matcher_implementation.py answered a call
ImplCalled == rev = "enhanced" /\ matched.called

\* the results of the last call that are about the candidate
ResultsFor(candidate) ==
  {k \in 1..Len(matched.results) : matched.results[k].candidate = candidate}

C16_SubsequenceRange ==
  matched.called =>
    \A k \in 1..Len(matched.results) :
      matched.results[k].match_type = "subsequence" =>
        /\ ScoreLe(Score(50), matched.results[k].score)
        /\ ScoreLe(matched.results[k].score, Score(90))

\* the edit distance, letter case ignored, between the query of the last call
\* and the candidate of its k-th result
Distance(k) ==
  Impl_levenshtein_distance(lower(matched.query), lower(matched.results[k].candidate))

Tagged(k) == matched.results[k].match_type = "levenshtein"

C18_EmptyQuery ==
  (matched.called /\ matched.query = "") =>
    /\ Len(matched.results) = Len(matched.candidates)
    /\ \A i \in 1..Len(matched.results) :
         /\ matched.results[i].candidate = matched.candidates[i]
         /\ ScoreEq(matched.results[i].score, Score(0))
         /\ matched.results[i].match_type = "none"

\* C19: no result of match in fuzzy_matcher_implementation.py is tagged
\* levenshtein while its edit distance to the query is 0, for every
\* combination of the enable flags.
C19_NoZeroDistance ==
  (ImplCalled /\ matched.query # "") =>
    \A k \in 1..Len(matched.results) : Tagged(k) => Distance(k) # 0

\* the result of scoring one candidate against the query of the last call
Single(candidate) ==
  IF rev = "packaged" THEN Pkg_match_single(matched.query, candidate)
  ELSE _match_single(_fuzzy_matcher, matched.query, candidate)

\* the position of the k-th result's candidate in the input list
InputIndex(k) ==
  CHOOSE i \in 1..Len(matched.candidates) :
    matched.candidates[i] = matched.results[k].candidate

\* C20: for a non-empty query the results are sorted by descending score,
\* candidates of equal score keep their input order, and the results are
\* exactly the input candidates whose score is greater than 0.
C20_SortedPositive ==
  (matched.called /\ matched.query # "") =>
    /\ \A k, n \in 1..Len(matched.results) :
         k < n =>
           /\ ScoreLe(matched.results[n].score, matched.results[k].score)
           /\ ScoreEq(matched.results[n].score, matched.results[k].score) =>
                InputIndex(k) < InputIndex(n)
    /\ \A k \in 1..Len(matched.results) :
         /\ matched.results[k].candidate \in Range(matched.candidates)
         /\ matched.results[k] = Single(matched.results[k].candidate)
         /\ Positive(matched.results[k])
    /\ \A i \in 1..Len(matched.candidates) :
         Positive(Single(matched.candidates[i])) =>
           Cardinality(ResultsFor(matched.candidates[i])) = 1

C20_Witness ==
  /\ matched.called
  /\ matched.query # ""
  /\ Len(matched.results) < Len(matched.candidates)
  /\ \E k, n \in 1..Len(matched.results) :
       /\ k < n
       /\ InputIndex(n) < InputIndex(k)
  /\ \E k, n \in 1..Len(matched.results) :
       /\ k < n
       /\ ScoreEq(matched.results[n].score, matched.results[k].score)

\* the query of the last call occurs in the candidate, letter case ignored, as
\* a contiguous run that does not start the candidate
RunInside(candidate) ==
  \E p \in 2..(Len(candidate) - Len(matched.query) + 1) :
    SubSeq(lower(candidate), p, p + Len(matched.query) - 1) = lower(matched.query)

\* C21: when the query occurs as a contiguous run inside the candidate but
\* not at its start, fuzzy_matcher_implementation.py classifies the candidate
\* as subsequence and the bonus for the run of adjacent positions lifts its
\* score above 70, as for "env" in "ssh env".
C21_ConsecutiveRun ==
  (ImplCalled /\ _fuzzy_matcher = DefaultMatcher /\ Len(matched.query) >= 2) =>
    \A i \in 1..Len(matched.candidates) :
      (RunInside(matched.candidates[i])
         /\ ~startswith(lower(matched.candidates[i]), lower(matched.query))) =>
        /\ ResultsFor(matched.candidates[i]) # {}
        /\ \A k \in ResultsFor(matched.candidates[i]) :
             /\ matched.results[k].match_type = "subsequence"
             /\ ScoreLt(Score(70), matched.results[k].score)

\* the first enabled tier that applies to the candidate for the query of the
\* last call, "none" if there is none
FirstTier(candidate) ==
  LET q == lower(matched.query)
      c == lower(candidate)
  IN IF _fuzzy_matcher.enable_prefix /\ startswith(c, q) THEN "prefix"
     ELSE IF _fuzzy_matcher.enable_subsequence /\ _is_subsequence(q, c) THEN "subsequence"
     ELSE IF _fuzzy_matcher.enable_levenshtein
             /\ Impl_levenshtein_distance(q, c) <= _fuzzy_matcher.max_levenshtein_distance
     THEN "levenshtein"
     ELSE "none"

RECURSIVE EditDistance(_, _)
EditDistance(a, b) ==
  IF a = "" THEN Len(b)
  ELSE IF b = "" THEN Len(a)
  ELSE Min3(EditDistance(SubSeq(a, 2, Len(a)), b) + 1,
            EditDistance(a, SubSeq(b, 2, Len(b))) + 1,
            EditDistance(SubSeq(a, 2, Len(a)), SubSeq(b, 2, Len(b)))
              + (IF CharAt(a, 1) = CharAt(b, 1) THEN 0 ELSE 1))

\* the function of the attached revision, called once more
DistanceOf(s1, s2) ==
  IF rev = "packaged" THEN Pkg_levenshtein_distance(s1, s2)
  ELSE Impl_levenshtein_distance(s1, s2)

\* the strings as the revision compares them: the packaged function lowers
\* each character, the implementation compares the characters as given
Compared(s) == IF rev = "packaged" THEN lower(s) ELSE s

\* long is short with one character inserted
OneInserted(short, long) ==
  /\ Len(long) = Len(short) + 1
  /\ \E p \in 1..Len(long) :
       SubSeq(long, 1, p - 1) \o SubSeq(long, p + 1, Len(long)) = short

\* b is a with one character substituted
OneSubstituted(a, b) ==
  /\ Len(a) = Len(b)
  /\ Cardinality({p \in 1..Len(a) : CharAt(a, p) # CharAt(b, p)}) = 1

SingleEdit(a, b) == OneInserted(a, b) \/ OneInserted(b, a) \/ OneSubstituted(a, b)

\* C23 as stated: the distance is 0 exactly when the case-folded strings are
\* equal, for every pair of strings and either revision.
C23_ZeroIffFoldedEqual ==
  distance.called => ((distance.value = 0) <=> (lower(distance.s1) = lower(distance.s2)))

\* C23 amended: _levenshtein_distance(s1, s2) is the classic unit-cost edit
\* distance of the strings as the revision compares them (lower-cased by the
\* packaged function, as given by the implementation, whose caller lowers
\* them): symmetric, 0 exactly when those strings are equal, the other
\* string's length when one is empty, and 1 for a single insertion, deletion
\* or substitution.
C23_EditDistance ==
  distance.called =>
    LET a == Compared(distance.s1)
        b == Compared(distance.s2)
    IN /\ distance.value = EditDistance(a, b)
       /\ distance.value = DistanceOf(distance.s2, distance.s1)
       /\ (distance.value = 0) <=> (a = b)
       /\ distance.s1 = "" => distance.value = Len(distance.s2)
       /\ distance.s2 = "" => distance.value = Len(distance.s1)
       /\ SingleEdit(a, b) => distance.value = 1

C23_Witness ==
  /\ distance.called
  /\ distance.s1 = "ab"
  /\ distance.s2 = "aa"
  /\ distance.value = 1

(* ---------------------------------------------------------------------- *)
(* Claims about the registry and the module loaders (SpecLoader)          *)
(* ---------------------------------------------------------------------- *)
\* the command of AliasCommandDefs stored at position i of _command_map
Registered(i) == CHOOSE c \in AliasCommandDefs : FullCommand(c.module, c.name) = _command_map[i].full

\* C24: an alias stays bound to the command that was registered with it
\* first; a later command asking for the same alias does not take it over.
C24_AliasCollision ==
  \A i \in 1..Len(_command_map) : \A j \in (i + 1)..Len(_command_map) :
    \A alias \in Range(Registered(i).aliases) \cap Range(Registered(j).aliases) :
      \A k \in 1..Len(_alias_map) :
        _alias_map[k].alias = alias => _alias_map[k].full = _command_map[i].full

\* C26: once load(name) has returned a module, a later load(name) returns
\* that same instance, and a later load or ensure_module_loaded neither calls
\* register nor runs a callback, and the name stays loaded.
C26_LoadOnce ==
  (loader_call.op \in {"load", "ensure_module_loaded"} /\ loader_call.succeeded) =>
    /\ loader_call.outcome # "raised"
    /\ loader_call.op = "load" =>
         /\ loader_call.outcome = "module"
         /\ loader_call.module = loaded_instance[loader_call.name]
    /\ ~loader_call.registering
    /\ loader_call.callbacks = 0
    /\ is_loaded(_loaded_modules, loader_call.name)

\* the class of the module a register call was given
RegisteredClass == CHOOSE c \in ModuleClasses : c.name = loader_call.name

\* C27: a register call raises when the name is already registered or the
\* module's initialize (or name) fails, and after a register call that raised
\* the module's name is not registered.
C27_RegisterCleansUp ==
  loader_call.op = "register" =>
    /\ (loader_call.was_registered \/ RegisteredClass.fails # "none") =>
         loader_call.outcome = "raised"
    /\ loader_call.outcome = "raised" => ~is_registered(_modules, loader_call.name)

C27_Witness ==
  /\ loader_call.op = "register"
  /\ loader_call.outcome = "raised"
  /\ loader_call.was_registered
  /\ ~is_registered(_modules, loader_call.name)

\* C30: after a load call that returned None the name is not loaded, the
\* call left no registration behind, and a name that was lazy is lazy still.
C30_AllOrNothing ==
  (loader_call.op = "load" /\ loader_call.outcome = "None") =>
    /\ ~is_loaded(_loaded_modules, loader_call.name)
    /\ is_registered(_modules, loader_call.name) => loader_call.was_registered
    /\ loader_call.was_lazy => loader_call.name \in DOMAIN _lazy_modules

(* ---------------------------------------------------------------------- *)
(* Claims about _get_completion_meta (SpecMeta)                           *)
(* ---------------------------------------------------------------------- *)
\* C25: a _get_completion_meta call does not raise and returns a non-empty
\* string, whatever the registry holds and whether or not the lookup hits.
C25_MetaFallback ==
  meta.called => (meta.outcome = "returned" /\ meta.value # "")

\* C25, the part about exceptions alone
C25_MetaNeverRaises == meta.called => meta.outcome = "returned"

(* ---------------------------------------------------------------------- *)
(* Claims about the cache of the packaged FuzzyMatcher (SpecCache)        *)
(* ---------------------------------------------------------------------- *)
\* the keys of a cache, oldest first
Keys(cache) ==
  [n \in 1..Len(cache) |-> [query |-> cache[n].query, candidates |-> cache[n].candidates]]

Replaced(i) ==
  SubSeq(completions.text,
         Len(completions.text) + completions.yielded[i].start_position + 1,
         Len(completions.text))

\* C29: every suggestion's start_position is minus the length of the partial
\* word, and the characters of text_before_cursor it spans are the partial
\* word.
C29_ReplacedSpan ==
  \A i \in 1..Len(completions.yielded) :
    /\ completions.yielded[i].start_position = 0 - Len(completions.word)
    /\ Len(completions.word) <= Len(completions.text)
    /\ Replaced(i) = completions.word

====
